---- MODULE Spec2Model ----
(***************************************************************************)
(* Model of env_localctl.py: the contract parser, the canonicalizer of     *)
(* values files, the secret resolver, the compile merge and the redactor.  *)
(*                                                                         *)
(* Python values are records [py, repr]: py is the runtime type and repr   *)
(* is str(value).  A dict is a sequence of <<key, value>> pairs with        *)
(* distinct keys, in insertion order.  A message (an f-string of the       *)
(* source) is a record [kind, key, src, detail] holding the parts the      *)
(* f-string interpolates.                                                  *)
(***************************************************************************)
EXTENDS Integers, Sequences, FiniteSets, TLC

\* Python None, where the other values of the field are strings.
None == "<None>"

V(py, repr) == [py |-> py, repr |-> repr]
PyNone == V("NoneType", "None")
PyStr(s) == V("str", s)
PyInt(s) == V("int", s)
PyBool(s) == V("bool", s)

Msg(kind, key, src, detail) == [kind |-> kind, key |-> key, src |-> src, detail |-> detail]

----------------------------------------------------------------------------
(* dict operations *)

DictKeys(d) == {d[i][1] : i \in 1..Len(d)}
DictHas(d, k) == \E i \in 1..Len(d) : d[i][1] = k
DictGet(d, k) == d[CHOOSE i \in 1..Len(d) : d[i][1] = k][2]
DictPut(d, k, v) ==
    IF DictHas(d, k)
    THEN [i \in 1..Len(d) |-> IF d[i][1] = k THEN <<k, v>> ELSE d[i]]
    ELSE Append(d, <<k, v>>)

----------------------------------------------------------------------------
(* string functions, as tables over the strings the bounded inputs use *)

\* str.strip()
Strip(s) ==
    CASE s = " removed " -> "removed"
      [] s = "  " -> ""
      [] s = " 2030-01-01 " -> "2030-01-01"
      [] s = " Team Alpha " -> "Team Alpha"
      [] s = " proj-1 " -> "proj-1"
      [] OTHER -> s

\* str.lower()
Lower(s) ==
    CASE s = "Team Alpha" -> "team alpha"
      [] s = "TEAM ALPHA" -> "team alpha"
      [] s = "Team Beta" -> "team beta"
      [] s = "TEAM BETA" -> "team beta"
      [] OTHER -> s

\* str.rstrip("\n")
RStripNewlines(s) ==
    CASE s = "s3cr3t\n" -> "s3cr3t"
      [] s = "hunter2\n\n" -> "hunter2"
      [] s = "\n" -> ""
      [] OTHER -> s

\* ENV_VAR_RE = ^[A-Z][A-Z0-9_]*$
EnvVarNames ==
    {"APP_ENV", "DB_PORT", "DB_HOST", "API_KEY", "API_TOKEN", "NEW_URL", "ALT_URL",
     "OLD_URL", "LOG_LEVEL", "EXTRA", "ZZ_UNKNOWN"}
ENV_VAR_RE_match(s) == s \in EnvVarNames

\* _DATE_YYYY_MM_DD_RE = ^\d{4}-\d{2}-\d{2}$
DATE_RE_match(s) == s \in {"2030-01-01", "2031-12-31"}

ALLOWED_TYPES == {"string", "int", "float", "bool", "json", "enum", "url"}
LIFECYCLE_STATES == {"active", "deprecated", "removed"}

----------------------------------------------------------------------------
(* VarDef and parse_contract *)

\* Optional[List[str]]: None is [some |-> FALSE].
NoList == [some |-> FALSE, items |-> <<>>]
SomeList(items) == [some |-> TRUE, items |-> items]

VarDef(name, type, required, secret, secret_ref, default, enum, scopes, description, state, deprecate_after, replacement, rename_from) ==
    [name |-> name, type |-> type, required |-> required, secret |-> secret,
     secret_ref |-> secret_ref, default |-> default, enum |-> enum, scopes |-> scopes,
     description |-> description, state |-> state, deprecate_after |-> deprecate_after,
     replacement |-> replacement, rename_from |-> rename_from]

\* The lifecycle state of one raw entry and the errors it records.
ParseState(name, cfg) ==
    LET state0 == IF cfg.state # None /\ Strip(cfg.state) # "" THEN Strip(cfg.state)
                  ELSE IF cfg.deprecated THEN "deprecated"
                  ELSE "active"
        state == IF state0 \notin LIFECYCLE_STATES THEN "active" ELSE state0
    IN  [state |-> state,
         errors |->
            (IF state0 \notin LIFECYCLE_STATES
             THEN <<Msg("contract_invalid_state", name, "", state0)>> ELSE <<>>)
            \o (IF cfg.deprecated /\ state # "deprecated"
                THEN <<Msg("contract_deprecated_conflict", name, "", state)>> ELSE <<>>)]

ParseDeprecateAfter(name, cfg, state) ==
    LET raw == cfg.deprecate_after
        bad == raw # None /\ ~DATE_RE_match(Strip(raw))
    IN  [value |-> IF raw = None \/ bad \/ state # "deprecated" THEN None ELSE Strip(raw),
         errors |->
            (IF bad THEN <<Msg("contract_deprecate_after_format", name, "", "")>> ELSE <<>>)
            \o (IF raw # None /\ state # "deprecated"
                THEN <<Msg("contract_deprecate_after_state", name, "", "")>> ELSE <<>>)]

ParseReplacement(name, cfg, state) ==
    LET raw == IF cfg.replacement = None /\ cfg.replaced_by # None
               THEN cfg.replaced_by ELSE cfg.replacement
        bad == raw # None /\ ~ENV_VAR_RE_match(raw)
    IN  [value |-> IF raw = None \/ bad \/ state # "deprecated" THEN None ELSE raw,
         errors |->
            (IF bad THEN <<Msg("contract_replacement_name", name, "", "")>> ELSE <<>>)
            \o (IF raw # None /\ state # "deprecated"
                THEN <<Msg("contract_replacement_state", name, "", "")>> ELSE <<>>)]

\* cfg.migration is [kind, rename_from]: kind "absent", "scalar" (not a mapping)
\* or "mapping".
ParseRenameFrom(name, cfg) ==
    LET m == cfg.migration
    IN  IF m.kind = "absent" THEN [value |-> None, errors |-> <<>>]
        ELSE IF m.kind # "mapping"
        THEN [value |-> None, errors |-> <<Msg("contract_migration_mapping", name, "", "")>>]
        ELSE IF m.rename_from = None THEN [value |-> None, errors |-> <<>>]
        ELSE IF ~ENV_VAR_RE_match(m.rename_from)
        THEN [value |-> None, errors |-> <<Msg("contract_rename_from_name", name, "", "")>>]
        ELSE IF m.rename_from = name
        THEN [value |-> None, errors |-> <<Msg("contract_rename_from_self", name, "", "")>>]
        ELSE [value |-> m.rename_from, errors |-> <<>>]

ParseSecretErrors(name, cfg) ==
    IF cfg.secret
    THEN (IF cfg.secret_ref = None \/ Strip(cfg.secret_ref) = ""
          THEN <<Msg("contract_secret_needs_ref", name, "", "")>> ELSE <<>>)
         \o (IF cfg.has_default
             THEN <<Msg("contract_secret_default", name, "", "")>> ELSE <<>>)
    ELSE IF cfg.secret_ref # None
         THEN <<Msg("contract_nonsecret_ref", name, "", "")>> ELSE <<>>

\* cfg.enum and cfg.scopes are [kind, items]: kind "absent", "list" (a list of
\* strings) or "other".
ParseEnum(name, cfg) ==
    IF cfg.type # "enum" THEN [value |-> <<>>, errors |-> <<>>]
    ELSE IF cfg.enum.kind # "list" \/ cfg.enum.items = <<>>
    THEN [value |-> <<>>, errors |-> <<Msg("contract_enum_list", name, "", "")>>]
    ELSE [value |-> cfg.enum.items, errors |-> <<>>]

ParseScopes(name, cfg) ==
    IF cfg.scopes.kind = "absent" THEN [value |-> NoList, errors |-> <<>>]
    ELSE IF cfg.scopes.kind # "list"
    THEN [value |-> NoList, errors |-> <<Msg("contract_scopes_list", name, "", "")>>]
    ELSE [value |-> SomeList(cfg.scopes.items), errors |-> <<>>]

\* cfg.description is a string or None; "two\nlines" is the one with a line break.
ParseDescription(name, cfg) ==
    LET d == cfg.description
    IN  IF d = None \/ Strip(d) = "" \/ d = "two\nlines"
        THEN [value |-> IF d = None THEN "" ELSE IF d = "two\nlines" THEN "two lines"
                        ELSE Strip(d),
              errors |-> <<Msg("contract_description", name, "", "")>>]
        ELSE [value |-> d, errors |-> <<>>]

\* ParseEntry without the "continue" after an invalid type.
ParseEntryKeepsInvalidType(name, cfg) ==
    IF ~ENV_VAR_RE_match(name)
    THEN [has |-> FALSE, errors |-> <<Msg("contract_invalid_name", name, "", "")>>]
    ELSE IF ~cfg.is_mapping
    THEN [has |-> FALSE, errors |-> <<Msg("contract_not_mapping", name, "", "")>>]
    ELSE [has |-> TRUE,
          vdef |-> VarDef(name, cfg.type, cfg.required, cfg.secret, cfg.secret_ref,
                          cfg.default, ParseEnum(name, cfg).value,
                          ParseScopes(name, cfg).value, ParseDescription(name, cfg).value,
                          ParseState(name, cfg).state, None, None,
                          ParseRenameFrom(name, cfg).value),
          errors |-> (IF cfg.type \notin ALLOWED_TYPES
                      THEN <<Msg("contract_invalid_type", name, "", cfg.type)>> ELSE <<>>)
                     \o ParseState(name, cfg).errors \o ParseRenameFrom(name, cfg).errors
                     \o ParseSecretErrors(name, cfg) \o ParseEnum(name, cfg).errors
                     \o ParseScopes(name, cfg).errors \o ParseDescription(name, cfg).errors]

\* One iteration of the loop over raw_vars: [has, vdef, errors].
ParseEntry(name, cfg) ==
    IF ~ENV_VAR_RE_match(name)
    THEN [has |-> FALSE, errors |-> <<Msg("contract_invalid_name", name, "", "")>>]
    ELSE IF ~cfg.is_mapping
    THEN [has |-> FALSE, errors |-> <<Msg("contract_not_mapping", name, "", "")>>]
    ELSE IF cfg.type \notin ALLOWED_TYPES
    THEN [has |-> FALSE, errors |-> <<Msg("contract_invalid_type", name, "", cfg.type)>>]
    ELSE
        LET st == ParseState(name, cfg)
            da == ParseDeprecateAfter(name, cfg, st.state)
            rp == ParseReplacement(name, cfg, st.state)
            rf == ParseRenameFrom(name, cfg)
            en == ParseEnum(name, cfg)
            sc == ParseScopes(name, cfg)
            ds == ParseDescription(name, cfg)
        IN  [has |-> TRUE,
             vdef |-> VarDef(name, cfg.type, cfg.required, cfg.secret, cfg.secret_ref,
                             cfg.default, en.value, sc.value, ds.value, st.state,
                             da.value, rp.value, rf.value),
             errors |-> st.errors \o da.errors \o rp.errors \o rf.errors
                        \o ParseSecretErrors(name, cfg) \o en.errors \o sc.errors
                        \o ds.errors]

\* The loop over raw_vars.items(): [vars, errors] after the first n entries.
RECURSIVE ParseEntries(_, _)
ParseEntries(raw_vars, n) ==
    IF n = 0 THEN [vars |-> <<>>, errors |-> <<>>]
    ELSE LET prev == ParseEntries(raw_vars, n - 1)
             e == ParseEntry(raw_vars[n][1], raw_vars[n][2])
         IN  [vars |-> IF e.has THEN DictPut(prev.vars, raw_vars[n][1], e.vdef)
                       ELSE prev.vars,
              errors |-> prev.errors \o e.errors]

\* RenameFromTo where a later spec silently takes over a legacy name.
RECURSIVE RenameFromToLastWins(_, _)
RenameFromToLastWins(vars_out, n) ==
    IF n = 0 THEN [map |-> <<>>, errors |-> <<>>]
    ELSE LET prev == RenameFromToLastWins(vars_out, n - 1)
             new_name == vars_out[n][1]
             old == vars_out[n][2].rename_from
         IN  IF old = None THEN prev
             ELSE [map |-> DictPut(prev.map, old, new_name), errors |-> prev.errors]

\* The first loop of the rename validation: [map, errors] after n specs, map
\* being the dict rename_from_to.
RECURSIVE RenameFromTo(_, _)
RenameFromTo(vars_out, n) ==
    IF n = 0 THEN [map |-> <<>>, errors |-> <<>>]
    ELSE LET prev == RenameFromTo(vars_out, n - 1)
             new_name == vars_out[n][1]
             old == vars_out[n][2].rename_from
         IN  IF old = None THEN prev
             ELSE IF DictHas(prev.map, old) /\ DictGet(prev.map, old) # new_name
             THEN [map |-> prev.map,
                   errors |-> Append(prev.errors,
                       Msg("contract_rename_collision", old, "", new_name))]
             ELSE [map |-> DictPut(prev.map, old, new_name), errors |-> prev.errors]

\* The second loop of the rename validation.
RECURSIVE RenameConflicts(_, _, _)
RenameConflicts(vars_out, map, n) ==
    IF n = 0 THEN <<>>
    ELSE LET old == map[n][1]
             new == map[n][2]
         IN  RenameConflicts(vars_out, map, n - 1)
             \o (IF DictHas(vars_out, old) /\ DictGet(vars_out, old).state # "removed"
                 THEN <<Msg("contract_rename_conflict", new, "", old)>> ELSE <<>>)

\* doc is the contract document: [kind, variables], kind "missing", "unparsable",
\* "not_mapping", "no_variables" or "ok".
parse_contract(doc) ==
    IF doc.kind = "missing"
    THEN [vars |-> <<>>, errors |-> <<Msg("contract_missing", "", "", "")>>]
    ELSE IF doc.kind = "unparsable"
    THEN [vars |-> <<>>, errors |-> <<Msg("contract_unparsable", "", "", "")>>]
    ELSE IF doc.kind # "ok"
    THEN [vars |-> <<>>, errors |-> <<Msg("contract_not_a_mapping", "", "", "")>>]
    ELSE LET p == ParseEntries(doc.variables, Len(doc.variables))
             r == RenameFromTo(p.vars, Len(p.vars))
         IN  [vars |-> p.vars,
              errors |-> p.errors \o r.errors
                         \o RenameConflicts(p.vars, r.map, Len(r.map))]

----------------------------------------------------------------------------
(* values files, the secret-reference file *)

\* doc is a values document: [kind, items], kind "missing", "unparsable", "null",
\* "scalar" (parsed, not a mapping) or "mapping"; items is the parsed mapping.
RECURSIVE LoadValuesItems(_, _, _)
LoadValuesItems(items, src, n) ==
    IF n = 0 THEN [values |-> <<>>, errors |-> <<>>]
    ELSE LET prev == LoadValuesItems(items, src, n - 1)
             k == items[n][1]
         IN  IF ~ENV_VAR_RE_match(k)
             THEN [values |-> prev.values,
                   errors |-> Append(prev.errors, Msg("values_invalid_key", k, src, ""))]
             ELSE [values |-> DictPut(prev.values, k, items[n][2]), errors |-> prev.errors]

load_values_file(doc, src) ==
    IF doc.kind = "missing" THEN [values |-> <<>>, errors |-> <<>>]
    ELSE IF doc.kind = "unparsable"
    THEN [values |-> <<>>, errors |-> <<Msg("values_unparsable", "", src, "")>>]
    ELSE IF doc.kind = "null" THEN [values |-> <<>>, errors |-> <<>>]
    ELSE IF doc.kind # "mapping"
    THEN [values |-> <<>>, errors |-> <<Msg("values_not_mapping", "", src, "")>>]
    ELSE LoadValuesItems(doc.items, src, Len(doc.items))

\* One secret-reference entry cfg is [is_mapping, backend, ref, project_id,
\* project_name, key], each field a string or None (absent).
RECURSIVE LoadSecretsItems(_, _)
LoadSecretsItems(secrets, n) ==
    IF n = 0 THEN [refs |-> <<>>, errors |-> <<>>]
    ELSE LET prev == LoadSecretsItems(secrets, n - 1)
             name == secrets[n][1]
             cfg == secrets[n][2]
         IN  IF Strip(name) = ""
             THEN [refs |-> prev.refs,
                   errors |-> Append(prev.errors, Msg("secrets_invalid_name", name, "", ""))]
             ELSE IF ~cfg.is_mapping
             THEN [refs |-> prev.refs,
                   errors |-> Append(prev.errors, Msg("secrets_not_mapping", name, "", ""))]
             ELSE [refs |-> DictPut(prev.refs, name, cfg),
                   errors |-> prev.errors
                     \o (IF cfg.backend = None \/ Strip(cfg.backend) = ""
                         THEN <<Msg("secrets_backend", name, "", "")>> ELSE <<>>)
                     \o (IF cfg.ref = None \/ Strip(cfg.ref) = ""
                         THEN <<Msg("secrets_ref", name, "", "")>> ELSE <<>>)]

\* The top-level mapping without its metadata key.
DropVersion(items) == SelectSeq(items, LAMBDA e : e[1] # "version")

\* doc is the secret-reference document: [kind, items], kind "missing",
\* "unparsable", "null", "nested" (a "secrets" mapping), "flat" or "scalar".
load_secrets_ref(doc) ==
    IF doc.kind = "missing"
    THEN [refs |-> <<>>, errors |-> <<Msg("secrets_missing_file", "", "", "")>>]
    ELSE IF doc.kind = "unparsable"
    THEN [refs |-> <<>>, errors |-> <<Msg("secrets_unparsable", "", "", "")>>]
    ELSE IF doc.kind = "null"
    THEN [refs |-> <<>>, errors |-> <<Msg("secrets_empty", "", "", "")>>]
    ELSE IF doc.kind = "nested" THEN LoadSecretsItems(doc.items, Len(doc.items))
    ELSE IF doc.kind = "flat"
    THEN LoadSecretsItems(DropVersion(doc.items), Len(DropVersion(doc.items)))
    ELSE [refs |-> <<>>, errors |-> <<Msg("secrets_not_a_mapping", "", "", "")>>]

----------------------------------------------------------------------------
(* applicable, type_check_value *)

InList(x, l) == \E i \in 1..Len(l) : l[i] = x

applicable(v, env) == ~v.scopes.some \/ InList(env, v.scopes.items)

\* isinstance(value, int): bool is a subclass of int.
IsInstanceInt(value) == value.py \in {"int", "bool"}

\* The error string, or None.
type_check_value(v, value) ==
    LET t == v.type
    IN  IF t = "string" THEN (IF value.py = "str" THEN None ELSE "expected string")
        ELSE IF t = "url" THEN (IF value.py = "str" THEN None ELSE "expected url string")
        ELSE IF t = "int"
        THEN (IF IsInstanceInt(value) /\ value.py # "bool" THEN None ELSE "expected int")
        ELSE IF t = "float"
        THEN (IF (IsInstanceInt(value) \/ value.py = "float") /\ value.py # "bool"
              THEN None ELSE "expected float")
        ELSE IF t = "bool" THEN (IF value.py = "bool" THEN None ELSE "expected bool")
        ELSE IF t = "json"
        THEN (IF value.py \in {"dict", "list", "str", "float"} \/ IsInstanceInt(value)
              THEN None ELSE "expected json-like")
        ELSE IF t = "enum"
        THEN (IF value.py # "str" THEN "expected enum string"
              ELSE IF v.enum # <<>> /\ ~InList(value.repr, v.enum) THEN "expected one of"
              ELSE None)
        ELSE None

----------------------------------------------------------------------------
(* canonicalize_values_for_env *)

\* _rename_from_map: the dict legacy name -> current name after n specs.
RECURSIVE RenameMapUpTo(_, _)
RenameMapUpTo(vars_def, n) ==
    IF n = 0 THEN <<>>
    ELSE LET prev == RenameMapUpTo(vars_def, n - 1)
             v == vars_def[n][2]
         IN  IF v.rename_from = None THEN prev ELSE DictPut(prev, v.rename_from, v.name)

rename_from_map(vars_def) == RenameMapUpTo(vars_def, Len(vars_def))

\* CanonContractKey without the test of vdef.secret.
CanonContractKeyAllowsSecret(vars_def, env, src, acc, k, v) ==
    LET vdef == DictGet(vars_def, k)
    IN  IF ~applicable(vdef, env)
        THEN [acc EXCEPT !.errors = Append(@, Msg("canon_out_of_scope", k, src, k))]
        ELSE IF vdef.state = "removed"
        THEN [acc EXCEPT !.errors = Append(@, Msg("canon_removed", k, src, k))]
        ELSE [acc EXCEPT !.out = DictPut(@, k, v)]

\* The first branch of the loop body: k is a contract key.
CanonContractKey(vars_def, env, src, acc, k, v) ==
    LET vdef == DictGet(vars_def, k)
    IN  IF ~applicable(vdef, env)
        THEN [acc EXCEPT !.errors = Append(@, Msg("canon_out_of_scope", k, src, k))]
        ELSE IF vdef.state = "removed"
        THEN [acc EXCEPT !.errors = Append(@, Msg("canon_removed", k, src, k))]
        ELSE IF vdef.secret
        THEN [acc EXCEPT !.errors = Append(@, Msg("canon_secret", k, src, k))]
        ELSE [out |-> DictPut(acc.out, k, v),
              errors |-> acc.errors,
              warnings |-> IF vdef.state = "deprecated"
                           THEN Append(acc.warnings, Msg("canon_deprecated", k, src,
                                    IF vdef.replacement # None THEN vdef.replacement
                                    ELSE vdef.deprecate_after))
                           ELSE acc.warnings]

\* CanonLegacyKey without the test "new_key in raw_values".
CanonLegacyKeyNoConflict(vars_def, rename_map, raw_values, env, src, acc, k, v) ==
    LET new_key == DictGet(rename_map, k)
        vdef == DictGet(vars_def, new_key)
    IN  IF ~applicable(vdef, env)
        THEN [acc EXCEPT !.errors = Append(@, Msg("canon_out_of_scope", k, src, new_key))]
        ELSE IF vdef.state = "removed"
        THEN [acc EXCEPT !.errors = Append(@, Msg("canon_legacy_removed", k, src, new_key))]
        ELSE IF vdef.secret
        THEN [acc EXCEPT !.errors = Append(@, Msg("canon_secret", k, src, new_key))]
        ELSE [out |-> DictPut(acc.out, new_key, v),
              errors |-> acc.errors,
              warnings |-> Append(acc.warnings, Msg("canon_legacy", k, src, new_key))]

\* The second branch of the loop body: k is a legacy name.
CanonLegacyKey(vars_def, rename_map, raw_values, env, src, acc, k, v) ==
    LET new_key == DictGet(rename_map, k)
    IN  IF DictHas(raw_values, new_key)
        THEN [acc EXCEPT !.errors = Append(@, Msg("canon_conflict", k, src, new_key))]
        ELSE IF ~DictHas(vars_def, new_key)
        THEN [acc EXCEPT !.errors = Append(@, Msg("canon_legacy_unknown", k, src, new_key))]
        ELSE LET vdef == DictGet(vars_def, new_key)
             IN  IF ~applicable(vdef, env)
                 THEN [acc EXCEPT !.errors =
                          Append(@, Msg("canon_out_of_scope", k, src, new_key))]
                 ELSE IF vdef.state = "removed"
                 THEN [acc EXCEPT !.errors =
                          Append(@, Msg("canon_legacy_removed", k, src, new_key))]
                 ELSE IF vdef.secret
                 THEN [acc EXCEPT !.errors =
                          Append(@, Msg("canon_secret", k, src, new_key))]
                 ELSE [out |-> DictPut(acc.out, new_key, v),
                       errors |-> acc.errors,
                       warnings |-> Append(acc.warnings,
                                       Msg("canon_legacy", k, src, new_key))]

\* The loop over raw_values.items(): [out, errors, warnings] after n items.
RECURSIVE CanonUpTo(_, _, _, _, _, _)
CanonUpTo(vars_def, rename_map, raw_values, env, src, n) ==
    IF n = 0 THEN [out |-> <<>>, errors |-> <<>>, warnings |-> <<>>]
    ELSE LET acc == CanonUpTo(vars_def, rename_map, raw_values, env, src, n - 1)
             k == raw_values[n][1]
             v == raw_values[n][2]
         IN  IF DictHas(vars_def, k)
             THEN CanonContractKey(vars_def, env, src, acc, k, v)
             ELSE IF DictHas(rename_map, k)
             THEN CanonLegacyKey(vars_def, rename_map, raw_values, env, src, acc, k, v)
             ELSE [acc EXCEPT !.errors = Append(@, Msg("canon_unknown", k, src, ""))]

canonicalize_values_for_env(vars_def, raw_values, env, src) ==
    CanonUpTo(vars_def, rename_from_map(vars_def), raw_values, env, src, Len(raw_values))

----------------------------------------------------------------------------
(* the secret resolver *)

\* An error string that is None or empty is falsy; NoErr is the absent error.
NoErr == Msg(None, "", "", "")
IsErr(e) == e.kind # None

\* The process-lifetime state of the resolver: the two module-level caches, and
\* the list of external-tool invocations made so far.
NewProcess == [project_id_cache |-> <<>>, secrets_cache |-> <<>>, calls |-> <<>>]

\* _run_cli_json on the outcome of subprocess.run: outcome is [kind, is_list,
\* items], kind "launch_not_found", "launch_failed", "nonzero", "invalid_json"
\* or "ok".  Returns [data, err].
run_cli_json(outcome, name) ==
    IF outcome.kind = "launch_not_found"
    THEN [data |-> None, err |-> Msg("cli_not_found", name, "", "")]
    ELSE IF outcome.kind = "launch_failed"
    THEN [data |-> None, err |-> Msg("cli_failed_to_run", name, "", "")]
    ELSE IF outcome.kind = "nonzero"
    THEN [data |-> None, err |-> Msg("cli_failed", name, "", "")]
    ELSE IF outcome.kind = "invalid_json"
    THEN [data |-> None, err |-> Msg("cli_invalid_json", name, "", "")]
    ELSE [data |-> outcome, err |-> NoErr]

\* bws_projects without the test of BWS_ACCESS_TOKEN.
BwsProjectsWithoutToken(w, proc) ==
    IF ~w.bws_installed
    THEN [data |-> None, err |-> Msg("bws_cli_not_found", "", "", ""), proc |-> proc]
    ELSE LET r == run_cli_json(w.bws_project_list, "bws project list")
             proc2 == [proc EXCEPT !.calls = Append(@, <<"project list", "">>)]
         IN  IF IsErr(r.err) THEN [data |-> None, err |-> r.err, proc |-> proc2]
             ELSE IF ~r.data.is_list
             THEN [data |-> None, err |-> Msg("bws_project_list_not_array", "", "", ""),
                   proc |-> proc2]
             ELSE [data |-> r.data.items, err |-> NoErr, proc |-> proc2]

\* w is the world outside the process: [secret_store, os_environ, files,
\* bws_installed, bws_token, bws_project_list, bws_secret_list].
bws_projects(w, proc) ==
    IF ~w.bws_installed
    THEN [data |-> None, err |-> Msg("bws_cli_not_found", "", "", ""), proc |-> proc]
    ELSE IF ~w.bws_token
    THEN [data |-> None, err |-> Msg("bws_token_not_set", "", "", ""), proc |-> proc]
    ELSE LET r == run_cli_json(w.bws_project_list, "bws project list")
             proc2 == [proc EXCEPT !.calls = Append(@, <<"project list", "">>)]
         IN  IF IsErr(r.err) THEN [data |-> None, err |-> r.err, proc |-> proc2]
             ELSE IF ~r.data.is_list
             THEN [data |-> None, err |-> Msg("bws_project_list_not_array", "", "", ""),
                   proc |-> proc2]
             ELSE [data |-> r.data.items, err |-> NoErr, proc |-> proc2]

\* ProjectMatches comparing the names as they are printed.
ProjectMatchesVerbatim(projects, name_norm) ==
    LET hit == SelectSeq(projects,
                   LAMBDA p : p.name # None /\ p.id # None /\ p.name = name_norm)
    IN  [i \in 1..Len(hit) |-> hit[i].id]

\* The ids of the projects whose name matches, in list order.  A project is
\* [name, id], a field being None when it is not a string.
ProjectMatches(projects, name_norm) ==
    LET hit == SelectSeq(projects,
                   LAMBDA p : p.name # None /\ p.id # None
                              /\ Lower(Strip(p.name)) = name_norm)
    IN  [i \in 1..Len(hit) |-> hit[i].id]

\* bws_project_id_by_name storing the first match before it counts the matches.
ProjectIdByNameCachesFirstMatch(w, proc, project_name) ==
    LET name_norm == Lower(Strip(project_name))
    IN  IF name_norm = ""
        THEN [pid |-> None, err |-> Msg("bws_name_empty", "", "", ""), proc |-> proc]
        ELSE IF DictHas(proc.project_id_cache, name_norm)
        THEN [pid |-> DictGet(proc.project_id_cache, name_norm), err |-> NoErr,
              proc |-> proc]
        ELSE LET r == bws_projects(w, proc)
             IN  IF IsErr(r.err) THEN [pid |-> None, err |-> r.err, proc |-> r.proc]
                 ELSE LET matches == ProjectMatches(r.data, name_norm)
                      IN  IF matches = <<>>
                          THEN [pid |-> None,
                                err |-> Msg("bws_project_not_found", project_name, "", ""),
                                proc |-> r.proc]
                          ELSE IF Len(matches) > 1
                          THEN [pid |-> None,
                                err |-> Msg("bws_project_not_unique", project_name, "", ""),
                                proc |-> [r.proc EXCEPT !.project_id_cache =
                                             DictPut(@, name_norm, matches[1])]]
                          ELSE [pid |-> matches[1], err |-> NoErr,
                                proc |-> [r.proc EXCEPT !.project_id_cache =
                                             DictPut(@, name_norm, matches[1])]]

\* bws_project_id_by_name without the test of the cache.
ProjectIdByNameAlwaysLists(w, proc, project_name) ==
    LET name_norm == Lower(Strip(project_name))
    IN  IF name_norm = ""
        THEN [pid |-> None, err |-> Msg("bws_name_empty", "", "", ""), proc |-> proc]
        ELSE LET r == bws_projects(w, proc)
             IN  IF IsErr(r.err) THEN [pid |-> None, err |-> r.err, proc |-> r.proc]
                 ELSE LET matches == ProjectMatches(r.data, name_norm)
                      IN  IF matches = <<>>
                          THEN [pid |-> None,
                                err |-> Msg("bws_project_not_found", project_name, "", ""),
                                proc |-> r.proc]
                          ELSE IF Len(matches) > 1
                          THEN [pid |-> None,
                                err |-> Msg("bws_project_not_unique", project_name, "", ""),
                                proc |-> r.proc]
                          ELSE [pid |-> matches[1], err |-> NoErr,
                                proc |-> [r.proc EXCEPT !.project_id_cache =
                                             DictPut(@, name_norm, matches[1])]]

\* Returns [pid, err, proc].
bws_project_id_by_name(w, proc, project_name) ==
    LET name_norm == Lower(Strip(project_name))
    IN  IF name_norm = ""
        THEN [pid |-> None, err |-> Msg("bws_name_empty", "", "", ""), proc |-> proc]
        ELSE IF DictHas(proc.project_id_cache, name_norm)
        THEN [pid |-> DictGet(proc.project_id_cache, name_norm), err |-> NoErr,
              proc |-> proc]
        ELSE LET r == bws_projects(w, proc)
             IN  IF IsErr(r.err) THEN [pid |-> None, err |-> r.err, proc |-> r.proc]
                 ELSE LET matches == ProjectMatches(r.data, name_norm)
                      IN  IF matches = <<>>
                          THEN [pid |-> None,
                                err |-> Msg("bws_project_not_found", project_name, "", ""),
                                proc |-> r.proc]
                          ELSE IF Len(matches) > 1
                          THEN [pid |-> None,
                                err |-> Msg("bws_project_not_unique", project_name, "", ""),
                                proc |-> r.proc]
                          ELSE [pid |-> matches[1], err |-> NoErr,
                                proc |-> [r.proc EXCEPT !.project_id_cache =
                                             DictPut(@, name_norm, matches[1])]]

\* The loop that builds the key -> value dict of one project: [out, dup] after
\* n items, dup being the first duplicate key (None when there is none yet).
\* An item is [key, value], a field being None when it is not a string.
RECURSIVE SecretsDict(_, _)
SecretsDict(data, n) ==
    IF n = 0 THEN [out |-> <<>>, dup |-> None]
    ELSE LET prev == SecretsDict(data, n - 1)
             item == data[n]
         IN  IF prev.dup # None THEN prev
             ELSE IF item.key = None \/ item.value = None THEN prev
             ELSE IF DictHas(prev.out, item.key) THEN [prev EXCEPT !.dup = item.key]
             ELSE [prev EXCEPT !.out = DictPut(@, item.key, item.value)]

\* Returns [secrets, err, proc].
bws_secrets_for_project(w, proc, project_id) ==
    LET pid == Strip(project_id)
    IN  IF pid = ""
        THEN [secrets |-> <<>>, err |-> Msg("bws_pid_empty", "", "", ""), proc |-> proc]
        ELSE IF DictHas(proc.secrets_cache, pid)
        THEN [secrets |-> DictGet(proc.secrets_cache, pid), err |-> NoErr, proc |-> proc]
        ELSE IF ~w.bws_installed
        THEN [secrets |-> <<>>, err |-> Msg("bws_cli_not_found", "", "", ""), proc |-> proc]
        ELSE IF ~w.bws_token
        THEN [secrets |-> <<>>, err |-> Msg("bws_token_not_set", "", "", ""), proc |-> proc]
        ELSE LET outcome == IF DictHas(w.bws_secret_list, pid)
                            THEN DictGet(w.bws_secret_list, pid)
                            ELSE [kind |-> "nonzero", is_list |-> FALSE, items |-> <<>>]
                 r == run_cli_json(outcome, "bws secret list")
                 proc2 == [proc EXCEPT !.calls = Append(@, <<"secret list", pid>>)]
             IN  IF IsErr(r.err) THEN [secrets |-> <<>>, err |-> r.err, proc |-> proc2]
                 ELSE IF ~r.data.is_list
                 THEN [secrets |-> <<>>,
                       err |-> Msg("bws_secret_list_not_array", "", "", ""), proc |-> proc2]
                 ELSE LET d == SecretsDict(r.data.items, Len(r.data.items))
                      IN  IF d.dup # None
                          THEN [secrets |-> <<>>,
                                err |-> Msg("bws_duplicate_key", d.dup, "", ""),
                                proc |-> proc2]
                          ELSE [secrets |-> d.out, err |-> NoErr,
                                proc |-> [proc2 EXCEPT !.secrets_cache =
                                             DictPut(@, pid, d.out)]]

\* The variable name of an env backend ref: "env://VAR", "env:VAR" or "VAR".
EnvRefVar(ref) ==
    CASE ref = "env://API_KEY_VALUE" -> "API_KEY_VALUE"
      [] ref = "env:API_KEY_VALUE" -> "API_KEY_VALUE"
      [] ref = "env://" -> ""
      [] OTHER -> Strip(ref)

\* The path of a file backend ref: "file:///abs", "file:rel" or a bare path,
\* a relative path resolved against the project root.
FileRefPath(ref) ==
    CASE ref = "file:///run/secrets/api_key" -> "/run/secrets/api_key"
      [] ref = "file:secrets/api_key" -> "<root>/secrets/api_key"
      [] ref = "file://" -> ""
      [] OTHER -> Strip(ref)

\* urlparse(ref).netloc and the first "key" of its query, for a bws:// ref.
IsBwsRef(ref) == ref \in {"bws://proj-1?key=db/password", "bws://proj-1", "bws://?key=db/password"}
BwsRefNetloc(ref) ==
    CASE ref = "bws://proj-1?key=db/password" -> "proj-1"
      [] ref = "bws://proj-1" -> "proj-1"
      [] OTHER -> ""
BwsRefKey(ref) ==
    CASE ref = "bws://proj-1?key=db/password" -> "db/password"
      [] ref = "bws://?key=db/password" -> "db/password"
      [] OTHER -> None

resolve_secret_mock(w, proc, env, secret_name) ==
    IF ~DictHas(w.secret_store, <<env, secret_name>>)
    THEN [val |-> None, err |-> Msg("mock_secret_missing", secret_name, "", env),
          proc |-> proc]
    ELSE [val |-> RStripNewlines(DictGet(w.secret_store, <<env, secret_name>>)),
          err |-> NoErr, proc |-> proc]

resolve_secret_env(w, proc, ref) ==
    LET var == EnvRefVar(ref)
    IN  IF var = ""
        THEN [val |-> None, err |-> Msg("env_ref_required", "", "", ref), proc |-> proc]
        ELSE IF ~DictHas(w.os_environ, var)
        THEN [val |-> None, err |-> Msg("env_var_missing", var, "", ""), proc |-> proc]
        ELSE [val |-> DictGet(w.os_environ, var), err |-> NoErr, proc |-> proc]

resolve_secret_file(w, proc, ref) ==
    LET path == FileRefPath(ref)
    IN  IF path = ""
        THEN [val |-> None, err |-> Msg("file_ref_required", "", "", ref), proc |-> proc]
        ELSE IF ~DictHas(w.files, path)
        THEN [val |-> None, err |-> Msg("file_secret_missing", path, "", ""), proc |-> proc]
        ELSE [val |-> RStripNewlines(DictGet(w.files, path)), err |-> NoErr, proc |-> proc]

resolve_secret_bws(w, proc, secret_cfg, ref) ==
    LET from_ref == (secret_cfg.project_id = None \/ secret_cfg.project_id = "")
                    /\ IsBwsRef(ref)
        project_id == IF from_ref THEN BwsRefNetloc(ref) ELSE secret_cfg.project_id
        key0 == IF from_ref /\ BwsRefKey(ref) # None /\ Strip(BwsRefKey(ref)) # ""
                THEN Strip(BwsRefKey(ref)) ELSE secret_cfg.key
    IN  IF key0 = None \/ Strip(key0) = ""
        THEN [val |-> None, err |-> Msg("bws_key_required", "", "", ""), proc |-> proc]
        ELSE
        LET key == Strip(key0)
            by_id == project_id # None /\ Strip(project_id) # ""
            by_name == secret_cfg.project_name # None /\ Strip(secret_cfg.project_name) # ""
            p == IF by_id THEN [pid |-> Strip(project_id), err |-> NoErr, proc |-> proc]
                 ELSE bws_project_id_by_name(w, proc, secret_cfg.project_name)
        IN  IF ~by_id /\ ~by_name
            THEN [val |-> None, err |-> Msg("bws_project_required", "", "", ""),
                  proc |-> proc]
            ELSE IF IsErr(p.err) THEN [val |-> None, err |-> p.err, proc |-> p.proc]
            ELSE LET s == bws_secrets_for_project(w, p.proc, p.pid)
                 IN  IF IsErr(s.err) THEN [val |-> None, err |-> s.err, proc |-> s.proc]
                     ELSE IF ~DictHas(s.secrets, key)
                     THEN [val |-> None, err |-> Msg("bws_key_not_found", key, "", p.pid),
                           proc |-> s.proc]
                     ELSE [val |-> DictGet(s.secrets, key), err |-> NoErr, proc |-> s.proc]

\* Returns [val, err, proc]: the value or the error, and the process state after.
resolve_secret(w, proc, env, secret_name, secret_cfg) ==
    LET backend == IF secret_cfg.backend = None THEN "" ELSE Strip(secret_cfg.backend)
        ref == IF secret_cfg.ref = None THEN "" ELSE Strip(secret_cfg.ref)
    IN  IF backend = "mock" THEN resolve_secret_mock(w, proc, env, secret_name)
        ELSE IF backend = "env" THEN resolve_secret_env(w, proc, ref)
        ELSE IF backend = "file" THEN resolve_secret_file(w, proc, ref)
        ELSE IF backend = "bws" THEN resolve_secret_bws(w, proc, secret_cfg, ref)
        ELSE [val |-> None, err |-> Msg("unsupported_backend", backend, "", ""),
              proc |-> proc]

----------------------------------------------------------------------------
(* the redactor, the generated files *)

REDACTED == "***REDACTED***"

\* RedactUpTo that masks only the required secrets.
RECURSIVE RedactRequiredOnly(_, _, _)
RedactRequiredOnly(vars_def, effective, n) ==
    IF n = 0 THEN <<>>
    ELSE LET k == effective[n][1]
             v == effective[n][2]
         IN  DictPut(RedactRequiredOnly(vars_def, effective, n - 1), k,
                     IF /\ DictHas(vars_def, k)
                        /\ DictGet(vars_def, k).secret
                        /\ DictGet(vars_def, k).required
                     THEN PyStr(REDACTED) ELSE v)

\* RedactUpTo that copies only the keys the contract declares.
RECURSIVE RedactKnownOnly(_, _, _)
RedactKnownOnly(vars_def, effective, n) ==
    IF n = 0 THEN <<>>
    ELSE LET k == effective[n][1]
             v == effective[n][2]
         IN  IF ~DictHas(vars_def, k) THEN RedactKnownOnly(vars_def, effective, n - 1)
             ELSE DictPut(RedactKnownOnly(vars_def, effective, n - 1), k,
                          IF DictGet(vars_def, k).secret THEN PyStr(REDACTED) ELSE v)

\* The loop over effective.items(): the redacted copy of the first n items.
RECURSIVE RedactUpTo(_, _, _)
RedactUpTo(vars_def, effective, n) ==
    IF n = 0 THEN <<>>
    ELSE LET k == effective[n][1]
             v == effective[n][2]
         IN  DictPut(RedactUpTo(vars_def, effective, n - 1), k,
                     IF DictHas(vars_def, k) /\ DictGet(vars_def, k).secret
                     THEN PyStr(REDACTED) ELSE v)

redact_effective(vars_def, effective) == RedactUpTo(vars_def, effective, Len(effective))

envfile_name_for(env) == IF env = "dev" THEN <<".env.local">> ELSE <<".env.", env, ".local">>


\* sorted(): the names the bounded inputs use, in lexicographic order.
SortedNames ==
    <<"ALT_URL", "API_KEY", "API_TOKEN", "APP_ENV", "DB_HOST", "DB_PORT", "EXTRA",
      "LOG_LEVEL", "NEW_URL", "OLD_URL", "ZZ_UNKNOWN", "db_port">>
SortedKeys(d) == SelectSeq(SortedNames, LAMBDA k : DictHas(d, k))

\* json.dumps(v, separators=(",", ":")) of the dict and list values in use.
JsonCompact(v) == IF v.repr = "{'a': 1}" THEN "{\"a\":1}" ELSE "[]"

\* The scalar rendering of write_env_file.
RenderScalar(v) ==
    IF v.py = "bool" THEN (IF v.repr = "True" THEN "true" ELSE "false")
    ELSE IF v.py = "NoneType" THEN ""
    ELSE IF v.py \in {"dict", "list"} THEN JsonCompact(v)
    ELSE v.repr

\* The content write_env_file gives the env file: the generation time of the
\* header and the key=value lines.
write_env_file(kv, ts) ==
    LET keys == SortedKeys(kv)
    IN  [generated_at |-> ts,
         lines |-> [i \in 1..Len(keys) |-> <<keys[i], RenderScalar(DictGet(kv, keys[i]))>>]]

\* json.dumps(..., sort_keys=True) of a dict: its items in key order.
SortKeys(d) ==
    LET keys == SortedKeys(d)
    IN  [i \in 1..Len(keys) |-> <<keys[i], DictGet(d, keys[i])>>]

----------------------------------------------------------------------------
(* cmd_compile *)

\* gate is docs/project/env-ssot.json: [kind, mode, env_ssot, ssot_mode], kind
\* "missing", "unparsable", "scalar" or "mapping", a field being None when the
\* key is absent or not a string.
get_ssot_mode(gate) ==
    IF gate.kind # "mapping" THEN None
    ELSE IF gate.mode # None THEN gate.mode
    ELSE IF gate.env_ssot # None THEN gate.env_ssot
    ELSE gate.ssot_mode

\* DefaultsUpTo without the test of the state.
RECURSIVE DefaultsKeepRemoved(_, _, _)
DefaultsKeepRemoved(vars_def, env, n) ==
    IF n = 0 THEN <<>>
    ELSE LET prev == DefaultsKeepRemoved(vars_def, env, n - 1)
             name == vars_def[n][1]
             vdef == vars_def[n][2]
         IN  IF ~applicable(vdef, env) \/ vdef.secret THEN prev
             ELSE IF vdef.default # PyNone THEN DictPut(prev, name, vdef.default)
             ELSE prev

\* "Defaults first": effective after the first n specs.
RECURSIVE DefaultsUpTo(_, _, _)
DefaultsUpTo(vars_def, env, n) ==
    IF n = 0 THEN <<>>
    ELSE LET prev == DefaultsUpTo(vars_def, env, n - 1)
             name == vars_def[n][1]
             vdef == vars_def[n][2]
         IN  IF ~applicable(vdef, env) \/ vdef.state = "removed" \/ vdef.secret THEN prev
             ELSE IF vdef.default # PyNone THEN DictPut(prev, name, vdef.default)
             ELSE prev

\* OverlayItem with dict.setdefault in place of the assignment.
OverlayItemKeepsFirst(vars_def, acc, src_path, k, v) ==
    IF ~DictHas(vars_def, k) THEN acc
    ELSE LET t_err == type_check_value(DictGet(vars_def, k), v)
         IN  IF t_err # None
             THEN [acc EXCEPT !.errors = Append(@, Msg("type_check_failed", k, src_path, t_err))]
             ELSE IF DictHas(acc.effective, k) THEN acc
             ELSE [acc EXCEPT !.effective = DictPut(@, k, v)]

\* OverlayItem without the "continue" after the type error.
OverlayItemStoresAnyway(vars_def, acc, src_path, k, v) ==
    IF ~DictHas(vars_def, k) THEN acc
    ELSE LET t_err == type_check_value(DictGet(vars_def, k), v)
         IN  IF t_err # None
             THEN [effective |-> DictPut(acc.effective, k, v),
                   errors |-> Append(acc.errors, Msg("type_check_failed", k, src_path, t_err))]
             ELSE [acc EXCEPT !.effective = DictPut(@, k, v)]

\* One iteration of the overlay loop: acc is [effective, errors].
OverlayItem(vars_def, acc, src_path, k, v) ==
    IF ~DictHas(vars_def, k) THEN acc
    ELSE LET t_err == type_check_value(DictGet(vars_def, k), v)
         IN  IF t_err # None
             THEN [acc EXCEPT !.errors = Append(@, Msg("type_check_failed", k, src_path, t_err))]
             ELSE [acc EXCEPT !.effective = DictPut(@, k, v)]

\* "Overlay values", one layer: [effective, errors] after the first n items of src.
RECURSIVE OverlayUpTo(_, _, _, _, _)
OverlayUpTo(vars_def, effective, src, src_path, n) ==
    IF n = 0 THEN [effective |-> effective, errors |-> <<>>]
    ELSE OverlayItem(vars_def, OverlayUpTo(vars_def, effective, src, src_path, n - 1),
                     src_path, src[n][1], src[n][2])

Overlay(vars_def, effective, src, src_path) ==
    OverlayUpTo(vars_def, effective, src, src_path, Len(src))

\* ResolveItem that passes over a secret whose reference has no entry.
ResolveItemSkipsUnknownRef(w, secrets_ref, env, acc, name, vdef) ==
    IF ~applicable(vdef, env) \/ vdef.state = "removed" \/ ~vdef.secret THEN acc
    ELSE IF vdef.secret_ref = None \/ vdef.secret_ref = ""
    THEN [acc EXCEPT !.missing = Append(@, Msg("missing_secret_ref", name, "", ""))]
    ELSE IF ~DictHas(secrets_ref, vdef.secret_ref) THEN acc
    ELSE LET r == resolve_secret(w, acc.proc, env, vdef.secret_ref,
                                 DictGet(secrets_ref, vdef.secret_ref))
         IN  IF IsErr(r.err)
             THEN [effective |-> acc.effective,
                   missing |-> Append(acc.missing,
                                  Msg("secret_material_unavailable", name, "", r.err.kind)),
                   proc |-> r.proc]
             ELSE [effective |-> DictPut(acc.effective, name, PyStr(r.val)),
                   missing |-> acc.missing,
                   proc |-> r.proc]

\* ResolveItem without the "continue" after a failed resolution.
ResolveItemStoresAnyway(w, secrets_ref, env, acc, name, vdef) ==
    IF ~applicable(vdef, env) \/ vdef.state = "removed" \/ ~vdef.secret THEN acc
    ELSE IF vdef.secret_ref = None \/ vdef.secret_ref = ""
    THEN [acc EXCEPT !.missing = Append(@, Msg("missing_secret_ref", name, "", ""))]
    ELSE IF ~DictHas(secrets_ref, vdef.secret_ref)
    THEN [acc EXCEPT !.missing =
             Append(@, Msg("missing_secret_ref_entry", name, "", vdef.secret_ref))]
    ELSE LET r == resolve_secret(w, acc.proc, env, vdef.secret_ref,
                                 DictGet(secrets_ref, vdef.secret_ref))
         IN  [effective |-> DictPut(acc.effective, name,
                                    IF IsErr(r.err) THEN PyNone ELSE PyStr(r.val)),
              missing |-> IF IsErr(r.err)
                          THEN Append(acc.missing,
                                  Msg("secret_material_unavailable", name, "", r.err.kind))
                          ELSE acc.missing,
              proc |-> r.proc]

\* One iteration of "Resolve secrets": acc is [effective, missing, proc].
ResolveItem(w, secrets_ref, env, acc, name, vdef) ==
    IF ~applicable(vdef, env) \/ vdef.state = "removed" \/ ~vdef.secret THEN acc
    ELSE IF vdef.secret_ref = None \/ vdef.secret_ref = ""
    THEN [acc EXCEPT !.missing = Append(@, Msg("missing_secret_ref", name, "", ""))]
    ELSE IF ~DictHas(secrets_ref, vdef.secret_ref)
    THEN [acc EXCEPT !.missing =
             Append(@, Msg("missing_secret_ref_entry", name, "", vdef.secret_ref))]
    ELSE LET r == resolve_secret(w, acc.proc, env, vdef.secret_ref,
                                 DictGet(secrets_ref, vdef.secret_ref))
         IN  IF IsErr(r.err)
             THEN [effective |-> acc.effective,
                   missing |-> Append(acc.missing,
                                  Msg("secret_material_unavailable", name, "", r.err.kind)),
                   proc |-> r.proc]
             ELSE [effective |-> DictPut(acc.effective, name, PyStr(r.val)),
                   missing |-> acc.missing,
                   proc |-> r.proc]

RECURSIVE ResolveUpTo(_, _, _, _, _, _)
ResolveUpTo(w, vars_def, secrets_ref, env, effective, n) ==
    IF n = 0 THEN [effective |-> effective, missing |-> <<>>, proc |-> NewProcess]
    ELSE ResolveItem(w, secrets_ref, env,
                     ResolveUpTo(w, vars_def, secrets_ref, env, effective, n - 1),
                     vars_def[n][1], vars_def[n][2])

\* RequiredUpTo that only tests "name not in effective".
RECURSIVE RequiredPresenceOnly(_, _, _, _)
RequiredPresenceOnly(vars_def, env, effective, n) ==
    IF n = 0 THEN <<>>
    ELSE LET name == vars_def[n][1]
             vdef == vars_def[n][2]
             prev == RequiredPresenceOnly(vars_def, env, effective, n - 1)
         IN  IF ~applicable(vdef, env) \/ vdef.state = "removed" \/ ~vdef.required THEN prev
             ELSE IF ~DictHas(effective, name)
             THEN Append(prev, Msg("required_missing", name, "", ""))
             ELSE prev

\* "Ensure required keys": the entries added to missing by the first n specs.
RECURSIVE RequiredUpTo(_, _, _, _)
RequiredUpTo(vars_def, env, effective, n) ==
    IF n = 0 THEN <<>>
    ELSE LET name == vars_def[n][1]
             vdef == vars_def[n][2]
             prev == RequiredUpTo(vars_def, env, effective, n - 1)
         IN  IF ~applicable(vdef, env) \/ vdef.state = "removed" \/ ~vdef.required THEN prev
             ELSE IF ~DictHas(effective, name)
                     \/ DictGet(effective, name) \in {PyNone, PyStr("")}
             THEN Append(prev, Msg("required_missing", name, "", ""))
             ELSE prev

\* ForceAppEnv with dict.setdefault in place of the assignment.
ForceAppEnvIfAbsent(vars_def, env, effective) ==
    IF DictHas(vars_def, "APP_ENV") /\ applicable(DictGet(vars_def, "APP_ENV"), env)
       /\ DictGet(vars_def, "APP_ENV").state # "removed" /\ ~DictHas(effective, "APP_ENV")
    THEN DictPut(effective, "APP_ENV", PyStr(env))
    ELSE effective

\* "Strongly prefer env selector to match".
ForceAppEnv(vars_def, env, effective) ==
    IF DictHas(vars_def, "APP_ENV") /\ applicable(DictGet(vars_def, "APP_ENV"), env)
       /\ DictGet(vars_def, "APP_ENV").state # "removed"
    THEN DictPut(effective, "APP_ENV", PyStr(env))
    ELSE effective

\* keys_summary: one [secret, present, type] per effective key, in key order.
KeysSummary(vars_def, effective) ==
    LET keys == SortedKeys(effective)
    IN  [i \in 1..Len(keys) |->
            <<keys[i],
              IF DictHas(vars_def, keys[i])
              THEN [secret |-> DictGet(vars_def, keys[i]).secret, present |-> TRUE,
                    type |-> DictGet(vars_def, keys[i]).type]
              ELSE [secret |-> FALSE, present |-> TRUE, type |-> "unknown"]>>]

\* AllErrors without the extend.
AllErrorsDropsMissing(errors, missing) == errors

\* "if missing: errors.extend(missing)".
AllErrors(errors, missing) == IF missing # <<>> THEN errors \o missing ELSE errors

CompileStatus(errors) == IF errors = <<>> THEN "PASS" ELSE "FAIL"

\* The last part of cmd_compile (lines 1022-1066): the required check, the
\* error list, the forced APP_ENV, the status and the report.  ld holds what was
\* loaded, cn the canonical layers, ov the overlays, sec the resolved secrets.
CompileReport(env, ts, ld, cn, ov, sec, required, errors, effective) ==
    [op |-> "compile",
     vars_def |-> ld.pc.vars,
     values |-> cn.cv.out,
     local_values |-> cn.clv.out,
     secrets_ref |-> ld.sr.refs,
     steps |-> [gate |-> ld.gate, contract |-> ld.pc.errors,
                load |-> ld.lv.errors \o ld.llv.errors,
                canon_values |-> cn.cv, canon_local |-> cn.clv,
                secrets_ref |-> ld.sr.errors,
                defaults |-> ov.defaults,
                overlay_values |-> ov.ov1, overlay_local |-> ov.ov2,
                resolved |-> sec.effective,
                secret_missing |-> sec.missing, required_missing |-> required],
     effective |-> effective,
     proc |-> sec.proc,
     status |-> CompileStatus(errors),
     exit_code |-> IF CompileStatus(errors) = "PASS" THEN 0 ELSE 1,
     report |-> [timestamp_utc |-> ts, env |-> env, status |-> CompileStatus(errors),
                 env_file |-> envfile_name_for(env),
                 missing |-> sec.missing \o required, errors |-> errors,
                 warnings |-> cn.cv.warnings \o cn.clv.warnings,
                 keys |-> KeysSummary(ld.pc.vars, effective)]]

\* cmd_compile from "Ensure required keys" on (lines 1022-1040).
CompileRequired(env, ts, ld, cn, ov, sec, required) ==
    CompileReport(env, ts, ld, cn, ov, sec, required,
        AllErrors(ld.gate \o ld.pc.errors \o ld.lv.errors \o ld.llv.errors
                  \o cn.cv.errors \o cn.clv.errors \o ld.sr.errors
                  \o ov.ov1.errors \o ov.ov2.errors,
                  sec.missing \o required),
        ForceAppEnv(ld.pc.vars, env, sec.effective))

\* cmd_compile from "Resolve secrets" on (lines 1001-1020).
CompileResolved(env, ts, ld, cn, ov, sec) ==
    CompileRequired(env, ts, ld, cn, ov, sec,
        RequiredUpTo(ld.pc.vars, env, sec.effective, Len(ld.pc.vars)))

\* The two overlays (lines 989-999) on top of the defaults.
CompileOverlays(vars_def, defaults, ov1, local_values) ==
    [defaults |-> defaults, ov1 |-> ov1,
     ov2 |-> Overlay(vars_def, ov1.effective, local_values, "local_values")]

\* cmd_compile from "Defaults first" on (lines 976-1020).
CompileMerged(w, env, ts, ld, cn, ov) ==
    CompileResolved(env, ts, ld, cn, ov,
        ResolveUpTo(w, ld.pc.vars, ld.sr.refs, env, ov.ov2.effective, Len(ld.pc.vars)))

CompileDefaults(w, env, ts, ld, cn, defaults) ==
    CompileMerged(w, env, ts, ld, cn,
        CompileOverlays(ld.pc.vars, defaults,
                        Overlay(ld.pc.vars, defaults, cn.cv.out, "values"), cn.clv.out))

\* cmd_compile from the canonicalization on (lines 966-971).
CompileCanonical(w, env, ts, ld, cn) ==
    CompileDefaults(w, env, ts, ld, cn, DefaultsUpTo(ld.pc.vars, env, Len(ld.pc.vars)))

CompileLoaded(w, env, ts, ld) ==
    CompileCanonical(w, env, ts, ld,
        [cv |-> canonicalize_values_for_env(ld.pc.vars, ld.lv.values, env, "values"),
         clv |-> canonicalize_values_for_env(ld.pc.vars, ld.llv.values, env,
                                             "local_values")])

\* cmd_compile up to the report: everything it computes from the files of repo
\* r, the world w and the arguments, at time ts.  It starts with the mode gate
\* and the loading of the contract, the two layers and the reference table.
cmd_compile(r, w, env, ts) ==
    CompileLoaded(w, env, ts,
        [gate |-> IF get_ssot_mode(r.ssot) # "repo-env-contract"
                  THEN <<Msg("ssot_mode_gate", "", "", "")>> ELSE <<>>,
         pc |-> parse_contract(r.contract),
         lv |-> load_values_file(r.values, "values"),
         llv |-> load_values_file(r.local_values, "local_values"),
         sr |-> load_secrets_ref(r.secrets_ref)])

\* The value cmd_doctor looks at for a non-secret variable: the local layer's,
\* else the project layer's, else the contract default.
DoctorValue(values, local_values, name, vdef) ==
    IF DictHas(local_values, name) THEN DictGet(local_values, name)
    ELSE IF DictHas(values, name) THEN DictGet(values, name)
    ELSE vdef.default

\* The non-secret branch of the loop of cmd_doctor (lines 898-914).
DoctorNonSecret(env, acc, name, vdef, value) ==
    IF vdef.required /\ value \in {PyNone, PyStr("")}
    THEN [acc EXCEPT !.missing_required = Append(@, Msg("required_missing", name, "", ""))]
    ELSE IF value # PyNone /\ type_check_value(vdef, value) # None
    THEN [acc EXCEPT !.errors =
             Append(@, Msg("type_check_failed", name, "", type_check_value(vdef, value)))]
    ELSE acc

\* One iteration of the loop of cmd_doctor: acc is [missing_required, errors, proc].
DoctorItem(w, secrets_ref, values, local_values, env, acc, name, vdef) ==
    IF ~applicable(vdef, env) \/ vdef.state = "removed" THEN acc
    ELSE IF ~vdef.secret
    THEN DoctorNonSecret(env, acc, name, vdef, DoctorValue(values, local_values, name, vdef))
    ELSE IF vdef.secret_ref = None \/ vdef.secret_ref = ""
    THEN [acc EXCEPT !.missing_required = Append(@, Msg("missing_secret_ref", name, "", ""))]
    ELSE IF ~DictHas(secrets_ref, vdef.secret_ref)
    THEN [acc EXCEPT !.missing_required =
             Append(@, Msg("missing_secret_ref_entry", name, "", vdef.secret_ref))]
    ELSE LET r == resolve_secret(w, acc.proc, env, vdef.secret_ref,
                                 DictGet(secrets_ref, vdef.secret_ref))
         IN  [missing_required |->
                  IF IsErr(r.err)
                  THEN Append(acc.missing_required,
                              Msg("secret_material_unavailable", name, "", r.err.kind))
                  ELSE acc.missing_required,
              errors |-> acc.errors,
              proc |-> r.proc]

RECURSIVE DoctorUpTo(_, _, _, _, _, _, _)
DoctorUpTo(w, vars_def, secrets_ref, values, local_values, env, n) ==
    IF n = 0 THEN [missing_required |-> <<>>, errors |-> <<>>, proc |-> NewProcess]
    ELSE DoctorItem(w, secrets_ref, values, local_values, env,
                    DoctorUpTo(w, vars_def, secrets_ref, values, local_values, env, n - 1),
                    vars_def[n][1], vars_def[n][2])

\* "Minimal action pointers": which of the two hints the summary carries.  The
\* code looks for "env/values" and "secret" in the text of the entries, which
\* is the text of the required entries and of the three secret entries.
DoctorActions(missing_required) ==
    (IF \E i \in 1..Len(missing_required) : missing_required[i].kind = "required_missing"
     THEN <<"add_values">> ELSE <<>>)
    \o (IF \E i \in 1..Len(missing_required) : missing_required[i].kind # "required_missing"
        THEN <<"ensure_secrets", "mock_store">> ELSE <<>>)

\* The end of cmd_doctor (lines 916-943): the error list, the status, the summary.
DoctorSummary(env, ts, ld, cn, chk, errors) ==
    [op |-> "doctor",
     vars_def |-> ld.pc.vars,
     values |-> cn.cv.out,
     local_values |-> cn.clv.out,
     secrets_ref |-> ld.sr.refs,
     missing_required |-> chk.missing_required,
     type_errors |-> chk.errors,
     proc |-> chk.proc,
     status |-> CompileStatus(errors),
     exit_code |-> IF CompileStatus(errors) = "PASS" THEN 0 ELSE 1,
     summary |-> [timestamp_utc |-> ts, env |-> env, status |-> CompileStatus(errors),
                  errors |-> errors,
                  warnings |-> cn.cv.warnings \o cn.clv.warnings,
                  actions |-> DoctorActions(chk.missing_required)]]

\* cmd_doctor from the loop over the contract on (lines 874-926).
DoctorChecked(env, ts, ld, cn, chk) ==
    DoctorSummary(env, ts, ld, cn, chk,
        AllErrors(ld.gate \o ld.pc.errors \o ld.lv.errors \o ld.llv.errors
                  \o cn.cv.errors \o cn.clv.errors \o ld.sr.errors \o chk.errors,
                  chk.missing_required))

DoctorCanonical(w, env, ts, ld, cn) ==
    DoctorChecked(env, ts, ld, cn,
        DoctorUpTo(w, ld.pc.vars, ld.sr.refs, cn.cv.out, cn.clv.out, env, Len(ld.pc.vars)))

DoctorLoaded(w, env, ts, ld) ==
    DoctorCanonical(w, env, ts, ld,
        [cv |-> canonicalize_values_for_env(ld.pc.vars, ld.lv.values, env, "values"),
         clv |-> canonicalize_values_for_env(ld.pc.vars, ld.llv.values, env,
                                             "local_values")])

\* cmd_doctor up to the summary, on the files of repo r and the world w.
cmd_doctor(r, w, env, ts) ==
    DoctorLoaded(w, env, ts,
        [gate |-> IF get_ssot_mode(r.ssot) # "repo-env-contract"
                  THEN <<Msg("ssot_mode_gate", "", "", "")>> ELSE <<>>,
         pc |-> parse_contract(r.contract),
         lv |-> load_values_file(r.values, "values"),
         llv |-> load_values_file(r.local_values, "local_values"),
         sr |-> load_secrets_ref(r.secrets_ref)])

----------------------------------------------------------------------------
(* the bounded inputs *)

Envs == {"dev", "prod"}

Absent == [kind |-> "absent", items |-> <<>>]
StrList(items) == [kind |-> "list", items |-> items]

\* A raw contract entry with every optional key absent.
BaseCfg ==
    [is_mapping |-> TRUE, type |-> "string", state |-> None, deprecated |-> FALSE,
     deprecate_after |-> None, replacement |-> None, replaced_by |-> None,
     migration |-> [kind |-> "absent", rename_from |-> None],
     required |-> FALSE, secret |-> FALSE, secret_ref |-> None,
     has_default |-> FALSE, default |-> PyNone, enum |-> Absent, scopes |-> Absent,
     description |-> "desc"]

WithDefault(cfg, v) == [cfg EXCEPT !.has_default = TRUE, !.default = v]
RenamedFrom(cfg, old) == [cfg EXCEPT !.migration = [kind |-> "mapping", rename_from |-> old]]

AppEnvCfgs ==
    {WithDefault([BaseCfg EXCEPT !.required = TRUE], PyStr("local")),
     [BaseCfg EXCEPT !.secret = TRUE, !.secret_ref = "app_env"]}

DbPortCfgs ==
    LET int == [BaseCfg EXCEPT !.type = "int"]
    IN  {[c EXCEPT !.required = r] :
            c \in {int, WithDefault(int, PyInt("5432"))}, r \in BOOLEAN}
        \cup {WithDefault([int EXCEPT !.required = TRUE], PyStr("")),
              [int EXCEPT !.required = TRUE, !.state = "removed"],
              [int EXCEPT !.required = TRUE, !.scopes = StrList(<<"prod">>)],
              WithDefault([int EXCEPT !.state = "deprecated"], PyInt("5432"))}

ApiKeyCfgs ==
    LET sec == [BaseCfg EXCEPT !.secret = TRUE, !.secret_ref = "api_key"]
    IN  {[sec EXCEPT !.required = r] : r \in BOOLEAN}
        \cup {[sec EXCEPT !.secret_ref = None],
              [sec EXCEPT !.state = "removed"],
              [sec EXCEPT !.scopes = StrList(<<"prod">>)]}

NewUrlCfgs ==
    LET url == RenamedFrom([BaseCfg EXCEPT !.type = "url"], "OLD_URL")
    IN  {[url EXCEPT !.required = TRUE], [url EXCEPT !.state = "deprecated"]}

OldUrlCfgs == {[BaseCfg EXCEPT !.type = "url", !.state = "removed"]}

\* The raw entries a contract document may hold for each name, in file order.
ContractNames == <<"APP_ENV", "DB_PORT", "API_KEY", "NEW_URL", "OLD_URL">>
CfgsOf(name) ==
    CASE name = "APP_ENV" -> AppEnvCfgs
      [] name = "DB_PORT" -> DbPortCfgs
      [] name = "API_KEY" -> ApiKeyCfgs
      [] name = "NEW_URL" -> NewUrlCfgs
      [] name = "OLD_URL" -> OldUrlCfgs

\* The variables mappings with entries of names[i..], at most n of them.
RECURSIVE VariablesFrom(_, _, _)
VariablesFrom(names, i, n) ==
    IF i > Len(names) \/ n = 0 THEN {<<>>}
    ELSE VariablesFrom(names, i + 1, n)
         \cup {<<<<names[i], c>>>> \o rest :
                 c \in CfgsOf(names[i]), rest \in VariablesFrom(names, i + 1, n - 1)}

OkDoc(vs) == [kind |-> "ok", variables |-> vs]
BrokenContractDocs ==
    {[kind |-> k, variables |-> <<>>] : k \in {"missing", "unparsable", "no_variables"}}

\* Contract documents of at most two entries, and the structurally invalid ones.
ContractDocs ==
    {OkDoc(vs) : vs \in VariablesFrom(ContractNames, 1, 2)} \cup BrokenContractDocs

Mapping(items) == [kind |-> "mapping", items |-> items]
BrokenValuesDocs == {[kind |-> k, items |-> <<>>] : k \in {"unparsable", "scalar"}}

\* The items a values document may hold.
LayerItems ==
    {<<"DB_PORT", PyInt("5433")>>, <<"DB_PORT", PyInt("5434")>>,
     <<"DB_PORT", PyStr("5433")>>,
     <<"NEW_URL", PyStr("http://new")>>, <<"NEW_URL", PyStr("")>>,
     <<"OLD_URL", PyStr("http://old")>>, <<"APP_ENV", PyStr("staging")>>,
     <<"API_KEY", PyStr("leaked")>>, <<"ZZ_UNKNOWN", PyStr("x")>>,
     <<"db_port", PyInt("5433")>>}

\* Values documents of at most one item, a missing file, and the invalid ones.
ValuesDocs ==
    {Mapping(<<it>>) : it \in LayerItems}
    \cup {[kind |-> "missing", items |-> <<>>]} \cup BrokenValuesDocs

GateOk ==
    [kind |-> "mapping", mode |-> "repo-env-contract", env_ssot |-> None, ssot_mode |-> None]
GateDocs ==
    {GateOk,
     [kind |-> "missing", mode |-> None, env_ssot |-> None, ssot_mode |-> None],
     [kind |-> "mapping", mode |-> None, env_ssot |-> "other",
      ssot_mode |-> "repo-env-contract"]}

SecretCfg(backend, ref) ==
    [is_mapping |-> TRUE, backend |-> backend, ref |-> ref, project_id |-> None,
     project_name |-> None, key |-> None]

MockSecretsRef == [kind |-> "nested", items |-> <<<<"api_key", SecretCfg("mock", "api_key")>>>>]
SecretsRefDocs ==
    {MockSecretsRef,
     [kind |-> "flat", items |-> <<<<"version", SecretCfg(None, None)>>,
                                    <<"api_key", SecretCfg("env", "env://API_KEY_VALUE")>>>>],
     [kind |-> "nested", items |-> <<<<"api_key", SecretCfg("vault", "api_key")>>>>],
     [kind |-> "nested", items |-> <<<<"other_key", SecretCfg("mock", "other_key")>>>>],
     [kind |-> "missing", items |-> <<>>]}

NoCli == [kind |-> "nonzero", is_list |-> FALSE, items |-> <<>>]
World(store, environ) ==
    [secret_store |-> store, os_environ |-> environ, files |-> <<>>,
     bws_installed |-> FALSE, bws_token |-> FALSE, bws_project_list |-> NoCli,
     bws_secret_list |-> <<>>]

FullStore == <<<<<<"dev", "api_key">>, "s3cr3t\n">>, <<<<"prod", "api_key">>, "hunter2\n\n">>>>
FullWorld == World(FullStore, <<<<"API_KEY_VALUE", "t0ken">>>>)
\* The same backends after a rotation of the secrets, and with blank secrets.
RotatedWorld ==
    World(<<<<<<"dev", "api_key">>, "hunter2\n\n">>, <<<<"prod", "api_key">>, "s3cr3t\n">>>>,
          <<<<"API_KEY_VALUE", "r0tated">>>>)
BlankWorld ==
    World(<<<<<<"dev", "api_key">>, "\n">>, <<<<"prod", "api_key">>, "\n">>>>,
          <<<<"API_KEY_VALUE", "">>>>)
Worlds ==
    {FullWorld, RotatedWorld, BlankWorld,
     World(<<<<<<"dev", "api_key">>, "s3cr3t\n">>>>, <<>>),
     World(<<>>, <<<<"API_KEY_VALUE", "t0ken">>>>)}

\* Contracts of the runs that vary the secret backends: the secret alone, or
\* beside a required port with a default.
BackendContractDocs ==
    {OkDoc(<<>>)}
    \cup {OkDoc(<<<<"API_KEY", c>>>>) : c \in ApiKeyCfgs}
    \cup {OkDoc(<<<<"DB_PORT", WithDefault([BaseCfg EXCEPT !.type = "int", !.required = TRUE],
                                           PyInt("5432"))>>,
                  <<"API_KEY", c>>>>) : c \in ApiKeyCfgs}

----------------------------------------------------------------------------
(* the state machine *)

VARIABLES
    repo,       \* the files compile reads: ssot, contract, values, local_values, secrets_ref
    world,      \* the secret backends
    args,       \* the command line: env, no_write
    now,        \* the clock
    env_file,   \* the generated local env file of each environment
    ctx_file,   \* the redacted effective-context document of each environment
    result      \* what the last operation returned

vars == <<repo, world, args, now, env_file, ctx_file, result>>

NoFile == [exists |-> FALSE]
NoFiles == [e \in Envs |-> NoFile]
NoResult == [op |-> "none"]

MaxRuns == 3

\* A fresh checkout: nothing generated yet.
Fresh ==
    /\ now = 0
    /\ env_file = NoFiles
    /\ ctx_file = NoFiles
    /\ result = NoResult

\* The runs that vary the contract and the two values files.
InitLayers ==
    /\ repo \in [ssot : {GateOk}, contract : ContractDocs, values : ValuesDocs,
                 local_values : ValuesDocs, secrets_ref : {MockSecretsRef}]
    /\ world = FullWorld
    /\ args \in [env : Envs, no_write : {FALSE}]

\* The runs that vary the gate, the secret references, the backends and the
\* arguments.
InitBackends ==
    /\ repo \in [ssot : GateDocs, contract : BackendContractDocs,
                 values : {Mapping(<<>>), Mapping(<<<<"DB_PORT", PyInt("5433")>>>>)},
                 local_values : {[kind |-> "missing", items |-> <<>>]},
                 secrets_ref : SecretsRefDocs]
    /\ world \in Worlds
    /\ args \in [env : Envs, no_write : BOOLEAN]

\* The runs that vary the declaration of APP_ENV and what the layers give it.
SelectorCfgs ==
    {WithDefault([BaseCfg EXCEPT !.required = TRUE], PyStr("local")),
     BaseCfg,
     WithDefault([BaseCfg EXCEPT !.scopes = StrList(<<"prod">>)], PyStr("local")),
     WithDefault([BaseCfg EXCEPT !.state = "removed"], PyStr("local")),
     WithDefault([BaseCfg EXCEPT !.type = "int"], PyInt("1")),
     WithDefault([BaseCfg EXCEPT !.type = "enum", !.enum = StrList(<<"local", "ci">>)],
                 PyStr("local")),
     [BaseCfg EXCEPT !.secret = TRUE, !.secret_ref = "api_key", !.required = TRUE]}

SelectorPortCfg == WithDefault([BaseCfg EXCEPT !.type = "int"], PyInt("5432"))

\* An int whose default is written as a quoted string.
QuotedPortCfg == WithDefault([BaseCfg EXCEPT !.type = "int"], PyStr("5432"))

SelectorContractDocs ==
    {OkDoc(<<<<"DB_PORT", SelectorPortCfg>>>>), OkDoc(<<<<"DB_PORT", QuotedPortCfg>>>>)}
    \cup {OkDoc(<<<<"APP_ENV", c>>>>) : c \in SelectorCfgs}
    \cup {OkDoc(<<<<"DB_PORT", SelectorPortCfg>>, <<"APP_ENV", c>>>>) : c \in SelectorCfgs}

SelectorValuesDocs ==
    {[kind |-> "missing", items |-> <<>>],
     Mapping(<<<<"APP_ENV", PyStr("staging")>>>>),
     Mapping(<<<<"APP_ENV", PyStr("prod")>>>>),
     Mapping(<<<<"APP_ENV", PyInt("7")>>>>)}

InitSelector ==
    /\ repo \in [ssot : {GateOk}, contract : SelectorContractDocs,
                 values : SelectorValuesDocs, local_values : SelectorValuesDocs,
                 secrets_ref : {MockSecretsRef}]
    /\ world = FullWorld
    /\ args \in [env : Envs, no_write : {FALSE}]

Init == (InitLayers \/ InitBackends \/ InitSelector) /\ Fresh

\* EnvFileAfter without the test of the status.
EnvFileAfterAnyStatus(c, no_write, old, ts) ==
    IF ~no_write
    THEN [exists |-> TRUE, content |-> write_env_file(c.effective, ts)]
    ELSE old

\* The env file after a run that returned c: written on PASS unless --no-write.
EnvFileAfter(c, no_write, old, ts) ==
    IF c.status = "PASS" /\ ~no_write
    THEN [exists |-> TRUE, content |-> write_env_file(c.effective, ts)]
    ELSE old

\* CtxFileAfter without the redaction.
CtxFileAfterUnredacted(c, env, old, ts) ==
    IF c.status = "PASS"
    THEN [exists |-> TRUE,
          content |-> [generated_at_utc |-> ts, env |-> env,
                       values |-> SortKeys(c.effective)]]
    ELSE old

\* The redacted context document after a run that returned c: written on PASS.
CtxFileAfter(c, env, old, ts) ==
    IF c.status = "PASS"
    THEN [exists |-> TRUE,
          content |-> [generated_at_utc |-> ts, env |-> env,
                       values |-> SortKeys(redact_effective(c.vars_def, c.effective))]]
    ELSE old

\* The effect of a run that computed c on the files r, the backends w and the
\* arguments a.
CompileDone(r, w, a, c) ==
    /\ result' = c
    /\ env_file' = [env_file EXCEPT ![a.env] = EnvFileAfter(c, a.no_write, @, now)]
    /\ ctx_file' = [ctx_file EXCEPT ![a.env] = CtxFileAfter(c, a.env, @, now)]
    /\ now' = now + 1
    /\ repo' = r
    /\ world' = w
    /\ args' = a

\* One run of "env_localctl.py compile" on the files r, the backends w and the
\* arguments a.
CompileWith(r, w, a) ==
    /\ now < MaxRuns
    /\ CompileDone(r, w, a, cmd_compile(r, w, a.env, now))

\* The first run in a fresh checkout.
FirstCompile == now = 0 /\ CompileWith(repo, world, args)

Next == FirstCompile

Spec == Init /\ [][Next]_vars

\* One run of "env_localctl.py doctor" in a fresh checkout; it writes no
\* generated file.
Doctor ==
    /\ result = NoResult
    /\ result' = cmd_doctor(repo, world, args.env, now)
    /\ now' = now + 1
    /\ UNCHANGED <<repo, world, args, env_file, ctx_file>>

\* Either command, once, in a fresh checkout.
NextModes == Doctor \/ FirstCompile

SpecModes == Init /\ [][NextModes]_vars

\* Repositories for runs that follow one another: the developer-local file
\* makes the run pass, pass with another port, or fail the type check, or the
\* reference table lacks the secret's entry.
RunContract ==
    OkDoc(<<<<"DB_PORT", WithDefault([BaseCfg EXCEPT !.type = "int", !.required = TRUE],
                                     PyInt("5432"))>>,
            <<"API_KEY", [BaseCfg EXCEPT !.secret = TRUE, !.required = TRUE,
                                         !.secret_ref = "api_key"]>>>>)

RunRepo(local_items, secrets_ref) ==
    [ssot |-> GateOk, contract |-> RunContract, values |-> [kind |-> "missing", items |-> <<>>],
     local_values |-> Mapping(local_items), secrets_ref |-> secrets_ref]

RunRepos ==
    {RunRepo(<<>>, MockSecretsRef),
     RunRepo(<<<<"DB_PORT", PyInt("5433")>>>>, MockSecretsRef),
     RunRepo(<<<<"DB_PORT", PyStr("5433")>>>>, MockSecretsRef),
     RunRepo(<<<<"DB_PORT", PyInt("5433")>>>>, [kind |-> "missing", items |-> <<>>])}

InitRuns ==
    /\ repo = RunRepo(<<>>, MockSecretsRef)
    /\ world = FullWorld
    /\ args = [env |-> "dev", no_write |-> FALSE]
    /\ Fresh

\* Any later run: the files may have been edited, the arguments may differ.
Invoke ==
    \E r \in RunRepos, a \in [env : Envs, no_write : BOOLEAN] : CompileWith(r, world, a)

NextRuns == Invoke

SpecRuns == InitRuns /\ [][NextRuns]_vars

\* Contracts for the canonicalizer alone: NEW_URL, mostly renamed from OLD_URL,
\* in every lifecycle state, scope and secrecy; OLD_URL undeclared, removed or
\* still active; ALT_URL claiming the same legacy name, before or after NEW_URL.
CanonNewUrlCfgs ==
    {[BaseCfg EXCEPT !.type = "url"],
     RenamedFrom([BaseCfg EXCEPT !.type = "url"], "OLD_URL"),
     RenamedFrom([BaseCfg EXCEPT !.type = "url", !.state = "deprecated"], "OLD_URL"),
     RenamedFrom([BaseCfg EXCEPT !.type = "url", !.state = "removed"], "OLD_URL"),
     RenamedFrom([BaseCfg EXCEPT !.type = "url", !.scopes = StrList(<<"prod">>)], "OLD_URL"),
     RenamedFrom([BaseCfg EXCEPT !.secret = TRUE, !.secret_ref = "new_url"], "OLD_URL")}

CanonOldUrlCfgs ==
    {[BaseCfg EXCEPT !.type = "url", !.state = "removed"],
     [BaseCfg EXCEPT !.type = "url", !.state = "removed", !.scopes = StrList(<<"prod">>)],
     [BaseCfg EXCEPT !.type = "url"]}

CanonAltUrlCfg == RenamedFrom([BaseCfg EXCEPT !.type = "url"], "OLD_URL")

CanonDbPortCfgs ==
    {[BaseCfg EXCEPT !.type = "int"],
     [BaseCfg EXCEPT !.type = "int", !.state = "removed"],
     [BaseCfg EXCEPT !.type = "int", !.scopes = StrList(<<"dev">>)],
     [BaseCfg EXCEPT !.secret = TRUE, !.secret_ref = "db_port"]}

CanonContractDocs ==
    {OkDoc(<<<<"NEW_URL", n>>>>) : n \in CanonNewUrlCfgs}
    \cup {OkDoc(<<<<"DB_PORT", d>>>>) : d \in CanonDbPortCfgs}
    \cup {OkDoc(<<<<"NEW_URL", n>>, <<"OLD_URL", o>>>>) :
             n \in CanonNewUrlCfgs, o \in CanonOldUrlCfgs}
    \cup {OkDoc(<<<<"NEW_URL", n>>, <<"DB_PORT", d>>>>) :
             n \in CanonNewUrlCfgs, d \in CanonDbPortCfgs}
    \cup {OkDoc(<<<<"NEW_URL", n>>, <<"ALT_URL", CanonAltUrlCfg>>>>) : n \in CanonNewUrlCfgs}
    \cup {OkDoc(<<<<"ALT_URL", CanonAltUrlCfg>>, <<"NEW_URL", n>>>>) : n \in CanonNewUrlCfgs}

\* Raw layers: at most MaxLayerLen distinct keys, in any order.
MaxLayerLen == 2
CanonKeys == {"NEW_URL", "OLD_URL", "ALT_URL", "DB_PORT", "ZZ_UNKNOWN"}
CanonValues == {PyStr("http://a"), PyStr("http://b")}

RECURSIVE LayersUpTo(_)
LayersUpTo(n) ==
    IF n = 0 THEN {<<>>}
    ELSE {<<>>} \cup
         {Append(t[1], <<t[2], t[3]>>) :
            t \in {u \in LayersUpTo(n - 1) \X CanonKeys \X CanonValues :
                      ~DictHas(u[1], u[2])}}

InitCanon ==
    /\ repo \in [ssot : {GateOk}, contract : CanonContractDocs,
                 values : {Mapping(l) : l \in LayersUpTo(MaxLayerLen)},
                 local_values : {[kind |-> "missing", items |-> <<>>]},
                 secrets_ref : {[kind |-> "missing", items |-> <<>>]}]
    /\ world = FullWorld
    /\ args \in [env : Envs, no_write : {FALSE}]
    /\ Fresh

\* What one call of canonicalize_values_for_env was given and returned.
CanonReturned(pc, raw_values, env, c) ==
    [op |-> "canonicalize", vars_def |-> pc.vars, contract_errors |-> pc.errors,
     raw_values |-> raw_values, env |-> env,
     out |-> c.out, errors |-> c.errors, warnings |-> c.warnings]

CanonCall(pc, raw_values, env) ==
    CanonReturned(pc, raw_values, env,
                  canonicalize_values_for_env(pc.vars, raw_values, env, "values"))

\* canonicalize_values_for_env on the parsed contract and the raw layer.
Canonicalize ==
    /\ result = NoResult
    /\ result' = CanonCall(parse_contract(repo.contract), repo.values.items, args.env)
    /\ UNCHANGED <<repo, world, args, now, env_file, ctx_file>>

NextCanon == Canonicalize

SpecCanon == InitCanon /\ [][NextCanon]_vars

\* Contracts and mappings for the redactor alone: API_KEY and API_TOKEN secret
\* or not, required or not; mappings of at most MaxMapLen keys, some of them
\* not in the contract, with values of several types.
RedactContractDocs ==
    {OkDoc(<<<<"API_KEY", [BaseCfg EXCEPT !.secret = s, !.required = r,
                                          !.secret_ref = IF s THEN "api_key" ELSE None]>>,
             <<"API_TOKEN", [BaseCfg EXCEPT !.secret = TRUE, !.state = st,
                                            !.secret_ref = "api_token"]>>,
             <<"DB_PORT", [BaseCfg EXCEPT !.type = "int"]>>>>) :
        s \in BOOLEAN, r \in BOOLEAN, st \in {None, "removed"}}

MaxMapLen == 2
RedactKeys == {"API_KEY", "API_TOKEN", "DB_PORT", "ZZ_UNKNOWN"}
RedactValues == {PyStr("s3cr3t"), PyStr(REDACTED), PyInt("5432"), PyNone}

RECURSIVE MappingsUpTo(_)
MappingsUpTo(n) ==
    IF n = 0 THEN {<<>>}
    ELSE {<<>>} \cup
         {Append(t[1], <<t[2], t[3]>>) :
            t \in {u \in MappingsUpTo(n - 1) \X RedactKeys \X RedactValues :
                      ~DictHas(u[1], u[2])}}

InitRedact ==
    /\ repo \in [ssot : {GateOk}, contract : RedactContractDocs,
                 values : {Mapping(l) : l \in MappingsUpTo(MaxMapLen)},
                 local_values : {[kind |-> "missing", items |-> <<>>]},
                 secrets_ref : {MockSecretsRef}]
    /\ world = FullWorld
    /\ args = [env |-> "dev", no_write |-> FALSE]

\* The redactor is exercised alone and inside the runs that vary the backends.
InitRedactOrCompile == (InitRedact \/ InitBackends) /\ Fresh

\* What one call of redact_effective was given and returned.
RedactCall(vars_def, effective) ==
    [op |-> "redact", vars_def |-> vars_def, effective |-> effective,
     out |-> redact_effective(vars_def, effective)]

\* redact_effective on the parsed contract and a mapping.
Redact ==
    /\ result = NoResult
    /\ result' = RedactCall(parse_contract(repo.contract).vars, repo.values.items)
    /\ UNCHANGED <<repo, world, args, now, env_file, ctx_file>>

NextRedact == Redact \/ FirstCompile

SpecRedact == InitRedactOrCompile /\ [][NextRedact]_vars

\* Raw contract entries for the parser alone: a valid one, one for each
\* validation rule it can break, and one that breaks two.
ParseCfgs ==
    {BaseCfg,
     [BaseCfg EXCEPT !.is_mapping = FALSE],
     [BaseCfg EXCEPT !.type = "integer"],
     [BaseCfg EXCEPT !.state = "bogus"],
     [BaseCfg EXCEPT !.state = " removed "],
     [BaseCfg EXCEPT !.state = "removed"],
     [BaseCfg EXCEPT !.deprecated = TRUE],
     [BaseCfg EXCEPT !.deprecated = TRUE, !.state = "removed"],
     [BaseCfg EXCEPT !.state = "deprecated", !.deprecate_after = "soon"],
     [BaseCfg EXCEPT !.deprecate_after = " 2030-01-01 "],
     [BaseCfg EXCEPT !.state = "deprecated", !.replacement = "db_port"],
     [BaseCfg EXCEPT !.state = "deprecated", !.replaced_by = "DB_HOST"],
     [BaseCfg EXCEPT !.migration = [kind |-> "scalar", rename_from |-> None]],
     RenamedFrom(BaseCfg, "db_port"),
     RenamedFrom(BaseCfg, "OLD_URL"),
     [BaseCfg EXCEPT !.secret = TRUE],
     WithDefault([BaseCfg EXCEPT !.secret = TRUE, !.secret_ref = "api_key"], PyStr("x")),
     [BaseCfg EXCEPT !.secret_ref = "api_key"],
     [BaseCfg EXCEPT !.type = "enum"],
     [BaseCfg EXCEPT !.scopes = [kind |-> "other", items |-> <<>>]],
     [BaseCfg EXCEPT !.description = None],
     [BaseCfg EXCEPT !.description = "two\nlines"],
     [BaseCfg EXCEPT !.state = "bogus", !.description = "  "]}

\* The entries that come before the last one.
ParseFewCfgs ==
    {BaseCfg,
     [BaseCfg EXCEPT !.is_mapping = FALSE],
     [BaseCfg EXCEPT !.state = "bogus"],
     [BaseCfg EXCEPT !.state = "removed"],
     RenamedFrom(BaseCfg, "OLD_URL")}

ParseNames == {"DB_PORT", "API_KEY", "OLD_URL", "db_port"}

\* Raw variables mappings of at most MaxEntries entries with distinct names.
MaxEntries == 2

RECURSIVE EntriesUpTo(_)
EntriesUpTo(n) ==
    IF n = 0 THEN {<<>>}
    ELSE {<<>>} \cup
         {Append(t[1], <<t[2], t[3]>>) :
            t \in {u \in EntriesUpTo(n - 1) \X ParseNames \X ParseFewCfgs :
                      ~DictHas(u[1], u[2])}}

ParseContracts ==
    {OkDoc(Append(t[1], <<t[2], t[3]>>)) :
        t \in {u \in EntriesUpTo(MaxEntries - 1) \X ParseNames \X ParseCfgs :
                  ~DictHas(u[1], u[2])}}
    \cup {OkDoc(<<>>)}

InitParse ==
    /\ repo \in [ssot : {GateOk}, contract : ParseContracts,
                 values : {[kind |-> "missing", items |-> <<>>]},
                 local_values : {[kind |-> "missing", items |-> <<>>]},
                 secrets_ref : {[kind |-> "missing", items |-> <<>>]}]
    /\ world = FullWorld
    /\ args = [env |-> "dev", no_write |-> FALSE]
    /\ Fresh

\* What one call of parse_contract read and returned.
ParseCall(raw_vars, pc) ==
    [op |-> "parse", raw_vars |-> raw_vars, vars |-> pc.vars, errors |-> pc.errors]

\* parse_contract on the contract document.
Parse ==
    /\ result = NoResult
    /\ result' = ParseCall(repo.contract.variables, parse_contract(repo.contract))
    /\ UNCHANGED <<repo, world, args, now, env_file, ctx_file>>

NextParse == Parse

SpecParse == InitParse /\ [][NextParse]_vars

\* The worlds of the bws backend: the tool installed with a token, what
\* "bws project list" prints and what "bws secret list <id>" prints.
CliList(items) == [kind |-> "ok", is_list |-> TRUE, items |-> items]

BwsWorld(installed, token, projects, secrets) ==
    [secret_store |-> <<>>, os_environ |-> <<>>, files |-> <<>>,
     bws_installed |-> installed, bws_token |-> token,
     bws_project_list |-> projects, bws_secret_list |-> secrets]

BwsProjects ==
    CliList(<<[name |-> " Team Alpha ", id |-> "proj-1"],
              [name |-> "Team Beta", id |-> "proj-2"],
              [name |-> "TEAM BETA", id |-> "proj-3"],
              [name |-> None, id |-> "proj-4"]>>)
BwsProjectsMoved == CliList(<<[name |-> "Team Alpha", id |-> "proj-2"]>>)

BwsSecrets ==
    <<<<"proj-1", CliList(<<[key |-> "db/password", value |-> "pw1"],
                            [key |-> None, value |-> "x"]>>)>>,
      <<"proj-2", CliList(<<[key |-> "db/password", value |-> "pw2"],
                            [key |-> "db/password", value |-> "pw3"]>>)>>>>
BwsSecretsRotated ==
    <<<<"proj-1", CliList(<<[key |-> "db/password", value |-> "pw9"]>>)>>>>

BwsUp == BwsWorld(TRUE, TRUE, BwsProjects, BwsSecrets)
BwsMoved == BwsWorld(TRUE, TRUE, BwsProjectsMoved, BwsSecretsRotated)
BwsNoToken == BwsWorld(TRUE, FALSE, BwsProjects, BwsSecrets)
BwsGone == BwsWorld(FALSE, FALSE, NoCli, <<>>)
BwsNoCli == BwsWorld(FALSE, TRUE, BwsProjects, BwsSecrets)
BwsBroken ==
    BwsWorld(TRUE, TRUE, [kind |-> "ok", is_list |-> FALSE, items |-> <<>>], <<>>)
BwsWorlds == {BwsUp, BwsMoved, BwsNoToken, BwsGone, BwsNoCli, BwsBroken}

\* What can happen to the backend while the process runs.
BwsWorldAfter(w) == IF w = BwsUp THEN {BwsMoved, BwsNoToken, BwsGone, BwsNoCli} ELSE {}

BwsProjectNames == {" Team Alpha ", "Team Alpha", "Team Beta", "team gamma", "  "}
BwsProjectIds == {"proj-1", " proj-1 ", "proj-2", "  "}
BwsSecretCfgs ==
    {[is_mapping |-> TRUE, backend |-> "bws", ref |-> None, project_id |-> None,
      project_name |-> " Team Alpha ", key |-> "db/password"],
     [is_mapping |-> TRUE, backend |-> "bws", ref |-> "bws://proj-1?key=db/password",
      project_id |-> None, project_name |-> None, key |-> None]}

\* The number of resolutions made in one process.
MaxResolutions == 3

InitBws ==
    /\ repo = [ssot |-> GateOk, contract |-> OkDoc(<<>>),
               values |-> [kind |-> "missing", items |-> <<>>],
               local_values |-> [kind |-> "missing", items |-> <<>>],
               secrets_ref |-> [kind |-> "missing", items |-> <<>>]]
    /\ world \in BwsWorlds
    /\ args = [env |-> "dev", no_write |-> FALSE]
    /\ now = 0
    /\ env_file = NoFiles
    /\ ctx_file = NoFiles
    /\ result = [op |-> "bws", proc |-> NewProcess, log |-> <<>>]

\* The calls a resolution added to the list of invocations.
NewCalls(before, after) == SubSeq(after.calls, Len(before.calls) + 1, Len(after.calls))

\* A resolution by function fn of argument arg, whose cache key is key, in
\* world w: what it returned and how it left the process.
BwsLogged(fn, arg, key, w, before, val, err, after) ==
    /\ result' = [op |-> "bws", proc |-> after,
                  log |-> Append(result.log,
                             [fn |-> fn, arg |-> arg, key |-> key, world |-> w,
                              before |-> before, val |-> val, err |-> err,
                              calls |-> NewCalls(before, after), after |-> after])]
    /\ UNCHANGED <<repo, world, args, now, env_file, ctx_file>>

BwsReady == result.op = "bws" /\ Len(result.log) < MaxResolutions

ProjectIdByNameDone(name, r) ==
    BwsLogged("project_id_by_name", name, Lower(Strip(name)), world, result.proc,
              r.pid, r.err, r.proc)

\* One call of _bws_project_id_by_name.
ProjectIdByName ==
    /\ BwsReady
    /\ \E name \in BwsProjectNames :
          ProjectIdByNameDone(name, bws_project_id_by_name(world, result.proc, name))

SecretsForProjectDone(pid, r) ==
    BwsLogged("secrets_for_project", pid, Strip(pid), world, result.proc,
              r.secrets, r.err, r.proc)

\* One call of _bws_secrets_for_project.
SecretsForProject ==
    /\ BwsReady
    /\ \E pid \in BwsProjectIds :
          SecretsForProjectDone(pid, bws_secrets_for_project(world, result.proc, pid))

ResolveBwsSecretDone(cfg, r) ==
    BwsLogged("resolve_secret", cfg, "", world, result.proc, r.val, r.err, r.proc)

\* One call of resolve_secret on a bws reference.
ResolveBwsSecret ==
    /\ BwsReady
    /\ \E cfg \in BwsSecretCfgs :
          ResolveBwsSecretDone(cfg, resolve_secret(world, result.proc, "dev", "api_key", cfg))

\* The backend changes under the running process.
BwsWorldChanges ==
    /\ result.op = "bws"
    /\ world' \in BwsWorldAfter(world)
    /\ UNCHANGED <<repo, args, now, env_file, ctx_file, result>>

NextBws == ProjectIdByName \/ SecretsForProject \/ ResolveBwsSecret \/ BwsWorldChanges

SpecBws == InitBws /\ [][NextBws]_vars

----------------------------------------------------------------------------
(* properties of compile *)

Compiled == result.op = "compile"

\* How many messages of the list s are about key, and how many of a kind.
EntriesFor(s, key) == Cardinality({i \in 1..Len(s) : s[i].key = key})
EntriesOfKind(s, key, kind) ==
    Cardinality({i \in 1..Len(s) : s[i].key = key /\ s[i].kind = kind})
Live(vdef, env) == applicable(vdef, env) /\ vdef.state # "removed"

\* The entry of key k is the same in the dicts a and b: absent in both, or the
\* same value in both.
SameEntry(a, b, k) ==
    /\ DictHas(a, k) <=> DictHas(b, k)
    /\ DictHas(a, k) => DictGet(a, k) = DictGet(b, k)

IsSecret(vars_def, k) == DictHas(vars_def, k) /\ DictGet(vars_def, k).secret

\* C1: redact_effective returns a mapping with the keys of its input in which
\* every key whose spec is secret carries the marker; so the context document a
\* compile writes has the marker, not the resolved value, for every secret
\* variable of the effective mapping.
C1_SecretsAreRedacted ==
    /\ result.op = "redact" =>
          /\ Len(result.out) = Len(result.effective)
          /\ \A i \in 1..Len(result.effective) :
                /\ result.out[i][1] = result.effective[i][1]
                /\ IsSecret(result.vars_def, result.effective[i][1]) =>
                       result.out[i][2] = PyStr(REDACTED)
    /\ (Compiled /\ ctx_file[args.env].exists) =>
          \A k \in DictKeys(result.effective) :
              IsSecret(result.vars_def, k) =>
                  /\ DictHas(ctx_file[args.env].content.values, k)
                  /\ DictGet(ctx_file[args.env].content.values, k) = PyStr(REDACTED)

\* A passing compile that resolved a secret and wrote the context document.
C1_Witness ==
    /\ Compiled /\ result.status = "PASS" /\ ctx_file[args.env].exists
    /\ DictHas(result.effective, "API_KEY")
    /\ IsSecret(result.vars_def, "API_KEY")
    /\ DictGet(result.effective, "API_KEY") \in {PyStr("s3cr3t"), PyStr("hunter2"), PyStr("t0ken")}
    /\ DictGet(ctx_file[args.env].content.values, "API_KEY") = PyStr(REDACTED)

\* The keys both canonical layers set, to two different values that both pass
\* the type check of a live, non-secret variable.
OverriddenKeys ==
    {k \in DictKeys(result.values) \cap DictKeys(result.local_values) :
        LET vdef == DictGet(result.vars_def, k)
        IN  /\ ~vdef.secret /\ Live(vdef, args.env)
            /\ DictGet(result.values, k) # DictGet(result.local_values, k)
            /\ type_check_value(vdef, DictGet(result.values, k)) = None
            /\ type_check_value(vdef, DictGet(result.local_values, k)) = None}

\* C2: a key that both canonical layers set to different valid values ends with
\* the developer-local value (the forced APP_ENV apart).
C2_LocalWins ==
    Compiled =>
        \A k \in OverriddenKeys \ {"APP_ENV"} :
            /\ DictHas(result.effective, k)
            /\ DictGet(result.effective, k) = DictGet(result.local_values, k)

C2_Witness == Compiled /\ OverriddenKeys \ {"APP_ENV"} # {}

\* No step of the pipeline recorded an error or a missing entry.
CleanRun ==
    LET st == result.steps
    IN  /\ st.gate = <<>> /\ st.contract = <<>> /\ st.load = <<>>
        /\ st.canon_values.errors = <<>> /\ st.canon_local.errors = <<>>
        /\ st.secrets_ref = <<>>
        /\ st.overlay_values.errors = <<>> /\ st.overlay_local.errors = <<>>
        /\ st.secret_missing = <<>> /\ st.required_missing = <<>>

\* C3: the status is PASS exactly when no step recorded an error and nothing is
\* missing, FAIL otherwise, and the exit code is 0 exactly on PASS.
C3_PassIffClean ==
    Compiled =>
        /\ result.status = "PASS" <=> CleanRun
        /\ result.status = "FAIL" <=> ~CleanRun
        /\ result.exit_code = 0 <=> result.status = "PASS"
        /\ result.exit_code = 1 <=> result.status = "FAIL"
        /\ result.report.status = result.status

\* A run that fails on missing entries alone.
C3_Witness ==
    /\ Compiled /\ result.status = "FAIL" /\ result.exit_code = 1
    /\ result.report.missing # <<>>
    /\ Len(result.report.errors) = Len(result.report.missing)

TypeErrors(k, src_path) ==
    Cardinality({i \in 1..Len(result.report.errors) :
                    LET m == result.report.errors[i]
                    IN  m.kind = "type_check_failed" /\ m.key = k /\ m.src = src_path})

FailsTypeCheck(layer, k) ==
    type_check_value(DictGet(result.vars_def, k), DictGet(layer, k)) # None

\* C5: a canonical layer value that fails the type check records exactly one
\* type-check error for its key and layer, leaves the key as the default or the
\* earlier layer had it, and the run is FAIL.
C5_TypeFailureSkipsKey ==
    Compiled =>
        LET st == result.steps
        IN  /\ \A k \in DictKeys(result.values) :
                 FailsTypeCheck(result.values, k) =>
                    /\ TypeErrors(k, "values") = 1
                    /\ SameEntry(st.defaults, st.overlay_values.effective, k)
                    /\ result.status = "FAIL"
            /\ \A k \in DictKeys(result.local_values) :
                 FailsTypeCheck(result.local_values, k) =>
                    /\ TypeErrors(k, "local_values") = 1
                    /\ SameEntry(st.overlay_values.effective, st.overlay_local.effective, k)
                    /\ k # "APP_ENV" =>
                           SameEntry(st.overlay_values.effective, result.effective, k)
                    /\ result.status = "FAIL"

\* int DB_PORT, required, default 5432; the developer-local file gives "5433".
C5_Witness ==
    /\ Compiled
    /\ DictHas(result.vars_def, "DB_PORT")
    /\ DictGet(result.vars_def, "DB_PORT").required
    /\ DictGet(result.vars_def, "DB_PORT").default = PyInt("5432")
    /\ DictHas(result.local_values, "DB_PORT")
    /\ DictGet(result.local_values, "DB_PORT") = PyStr("5433")
    /\ DictGet(result.effective, "DB_PORT") = PyInt("5432")
    /\ result.report.missing = <<>>
    /\ result.status = "FAIL"

MissingEntries(name) == EntriesFor(result.report.missing, name)
RequiredMissingEntries(name) ==
    EntriesOfKind(result.report.missing, name, "required_missing")

\* The live, required, non-secret variables with no default that neither
\* canonical layer sets.
UnsetRequired ==
    {i \in 1..Len(result.vars_def) :
        LET name == result.vars_def[i][1]
            vdef == result.vars_def[i][2]
        IN  /\ Live(vdef, args.env) /\ vdef.required /\ ~vdef.secret
            /\ vdef.default = PyNone
            /\ ~DictHas(result.values, name) /\ ~DictHas(result.local_values, name)}

\* The live, required variables whose merged value is the empty string.
EmptyRequired ==
    {i \in 1..Len(result.vars_def) :
        LET name == result.vars_def[i][1]
            vdef == result.vars_def[i][2]
        IN  /\ Live(vdef, args.env) /\ vdef.required
            /\ DictHas(result.steps.resolved, name)
            /\ DictGet(result.steps.resolved, name) = PyStr("")}

\* C6: a live, required, non-secret variable with no default that no layer sets
\* makes the run FAIL with exactly one missing entry naming it, and a required
\* variable merged to the empty string is recorded as missing too.
C6_RequiredIsMissing ==
    Compiled =>
        /\ \A i \in UnsetRequired :
              /\ result.status = "FAIL"
              /\ MissingEntries(result.vars_def[i][1]) = 1
              /\ RequiredMissingEntries(result.vars_def[i][1]) = 1
        /\ \A i \in EmptyRequired :
              /\ result.status = "FAIL"
              /\ RequiredMissingEntries(result.vars_def[i][1]) = 1

C6_Witness == Compiled /\ UnsetRequired # {} /\ EmptyRequired # {}

\* The live secret variables with a secret_ref whose table entry is absent.
SecretsWithoutEntry ==
    {i \in 1..Len(result.vars_def) :
        LET vdef == result.vars_def[i][2]
        IN  /\ Live(vdef, args.env) /\ vdef.secret
            /\ vdef.secret_ref \notin {None, ""}
            /\ ~DictHas(result.secrets_ref, vdef.secret_ref)}

\* The live secret variables whose table entry does not resolve.
SecretsUnresolved ==
    {i \in 1..Len(result.vars_def) :
        LET vdef == result.vars_def[i][2]
        IN  /\ Live(vdef, args.env) /\ vdef.secret
            /\ vdef.secret_ref \notin {None, ""}
            /\ DictHas(result.secrets_ref, vdef.secret_ref)
            /\ IsErr(resolve_secret(world, NewProcess, args.env, vdef.secret_ref,
                                    DictGet(result.secrets_ref, vdef.secret_ref)).err)}

ResolutionEntries(name, kind, detail) ==
    Cardinality({i \in 1..Len(result.report.missing) :
                    LET m == result.report.missing[i]
                    IN  m.key = name /\ m.kind = kind /\ m.detail = detail})

\* C7 as claimed: a live secret variable, required or not, whose reference has
\* no table entry or does not resolve makes the run FAIL, gets no value, and has
\* exactly one entry in the missing list.
C7_ExactlyOneMissingEntry ==
    Compiled =>
        \A i \in SecretsWithoutEntry \cup SecretsUnresolved :
            LET name == result.vars_def[i][1]
            IN  /\ result.status = "FAIL"
                /\ ~DictHas(result.effective, name)
                /\ MissingEntries(name) = 1

\* C7 as amended: the run is FAIL, the merge stores no value for the variable
\* (APP_ENV is still forced to the environment name), and the missing list has
\* exactly one resolution entry for it, citing the reference name or the
\* resolver's error, plus one "required but missing" entry when it is required.
C7_MissingSecretEntries ==
    Compiled =>
        /\ \A i \in SecretsWithoutEntry \cup SecretsUnresolved :
              LET name == result.vars_def[i][1]
                  vdef == result.vars_def[i][2]
              IN  /\ result.status = "FAIL"
                  /\ ~DictHas(result.steps.resolved, name)
                  /\ name # "APP_ENV" => ~DictHas(result.effective, name)
                  /\ RequiredMissingEntries(name) = IF vdef.required THEN 1 ELSE 0
                  /\ MissingEntries(name) = IF vdef.required THEN 2 ELSE 1
        /\ \A i \in SecretsWithoutEntry :
              ResolutionEntries(result.vars_def[i][1], "missing_secret_ref_entry",
                                result.vars_def[i][2].secret_ref) = 1
        /\ \A i \in SecretsUnresolved :
              LET vdef == result.vars_def[i][2]
              IN  ResolutionEntries(result.vars_def[i][1], "secret_material_unavailable",
                      resolve_secret(world, NewProcess, args.env, vdef.secret_ref,
                                     DictGet(result.secrets_ref, vdef.secret_ref)).err.kind)
                  = 1

\* A required secret without a table entry, and another run's failure aside,
\* a secret whose backend has no material.
C7_Witness ==
    /\ Compiled
    /\ \E i \in SecretsWithoutEntry \cup SecretsUnresolved :
          result.vars_def[i][2].required /\ MissingEntries(result.vars_def[i][1]) = 2

\* The redacted document a passing run writes.
WrittenContext(c, env, ts) ==
    [exists |-> TRUE,
     content |-> [generated_at_utc |-> ts, env |-> env,
                  values |-> SortKeys(redact_effective(c.vars_def, c.effective))]]

\* C4: over any sequence of compile runs, an env file changes only in a run that
\* is PASS without no_write (and only the file of that run's environment); a
\* FAIL run leaves every env file and every context document as they were; a
\* PASS run with no_write leaves the env files and overwrites its context
\* document.
C4_WritesOnlyOnPass ==
    [][now' = now + 1 =>
        /\ \A e \in Envs :
              env_file'[e] # env_file[e] =>
                  e = args'.env /\ result'.status = "PASS" /\ ~args'.no_write
        /\ result'.status = "FAIL" => env_file' = env_file /\ ctx_file' = ctx_file
        /\ (result'.status = "PASS" /\ args'.no_write) =>
              /\ env_file' = env_file
              /\ ctx_file'[args'.env] = WrittenContext(result', args'.env, now)
              /\ ctx_file'[args'.env] # ctx_file[args'.env]
              /\ \A e \in Envs \ {args'.env} : ctx_file'[e] = ctx_file[e]
    ]_vars

\* A failed run after a passing run that wrote the env file and a later passing
\* run with no_write that rewrote only the context document.
C4_Witness ==
    /\ Compiled /\ result.status = "FAIL"
    /\ env_file[args.env].exists /\ ctx_file[args.env].exists
    /\ env_file[args.env].content.generated_at
          < ctx_file[args.env].content.generated_at_utc
    /\ ctx_file[args.env].content.generated_at_utc < now - 1

----------------------------------------------------------------------------
(* properties of canonicalize_values_for_env *)

Canonicalized == result.op = "canonicalize"

\* parse_contract recorded no rename collision and no rename conflict.
RenameGraphAccepted ==
    \A i \in 1..Len(result.contract_errors) :
        result.contract_errors[i].kind
            \notin {"contract_rename_collision", "contract_rename_conflict"}

\* The specs B that declare renameFrom A where the raw layer sets A; those where
\* it sets B as well, and those where it does not.
RenamedSpecsSet ==
    {i \in 1..Len(result.vars_def) :
        /\ result.vars_def[i][2].rename_from # None
        /\ DictHas(result.raw_values, result.vars_def[i][2].rename_from)}
BothSet == {i \in RenamedSpecsSet : DictHas(result.raw_values, result.vars_def[i][1])}
LegacyOnly == {i \in RenamedSpecsSet : ~DictHas(result.raw_values, result.vars_def[i][1])}

MigrationWarnings(a) == EntriesOfKind(result.warnings, a, "canon_legacy")
ConflictErrors(a, b) ==
    Cardinality({j \in 1..Len(result.errors) :
                    LET m == result.errors[j]
                    IN  m.kind = "canon_conflict" /\ m.key = a /\ m.detail = b})

\* C8 as claimed, on the contracts whose rename graph parse_contract accepts: a
\* live, non-secret B that declares renameFrom A, A being undeclared or a
\* removed entry, and a layer that sets A but not B, give B the value of A, no
\* entry for A, exactly one migration warning and no error for A.
C8_LegacyKeyMigrates ==
    (Canonicalized /\ RenameGraphAccepted) =>
        \A i \in LegacyOnly :
            LET b == result.vars_def[i][1]
                vdef == result.vars_def[i][2]
                a == vdef.rename_from
            IN  (/\ Live(vdef, result.env) /\ ~vdef.secret
                 /\ DictHas(result.vars_def, a) =>
                        DictGet(result.vars_def, a).state = "removed") =>
                    /\ DictHas(result.out, b)
                    /\ DictGet(result.out, b) = DictGet(result.raw_values, a)
                    /\ ~DictHas(result.out, a)
                    /\ MigrationWarnings(a) = 1
                    /\ EntriesFor(result.errors, a) = 0

\* C9 as claimed: when B declares renameFrom A and the layer sets both, there is
\* exactly one conflict error for the pair and the output holds neither A nor B.
C9_ConflictStoresNeither ==
    Canonicalized =>
        \A i \in BothSet :
            LET b == result.vars_def[i][1]
                a == result.vars_def[i][2].rename_from
            IN  /\ ConflictErrors(a, b) = 1
                /\ ~DictHas(result.out, a)
                /\ ~DictHas(result.out, b)

\* C9 as amended, on the contracts whose rename graph parse_contract accepts:
\* when B declares renameFrom A and the layer sets both, A gets no value and
\* exactly one error, the conflict error naming the pair when A is not itself a
\* contract entry and that entry's rejection otherwise; B is treated as any
\* contract key: it keeps the value the layer gives it when it is live and not
\* secret, and is rejected with one error of its own otherwise.
C9_ConflictRejectsLegacyKey ==
    (Canonicalized /\ RenameGraphAccepted) =>
        \A i \in BothSet :
            LET b == result.vars_def[i][1]
                vdef == result.vars_def[i][2]
                a == vdef.rename_from
            IN  /\ ~DictHas(result.out, a)
                /\ EntriesFor(result.errors, a) = 1
                /\ ConflictErrors(a, b) = IF DictHas(result.vars_def, a) THEN 0 ELSE 1
                /\ IF Live(vdef, result.env) /\ ~vdef.secret
                   THEN /\ DictHas(result.out, b)
                        /\ DictGet(result.out, b) = DictGet(result.raw_values, b)
                        /\ EntriesFor(result.errors, b) = 0
                   ELSE /\ ~DictHas(result.out, b)
                        /\ EntriesFor(result.errors, b) = 1

\* The layer sets the undeclared legacy name and the live current name, to
\* different values, and the current name keeps its own.
C9_Witness ==
    /\ Canonicalized /\ RenameGraphAccepted
    /\ \E i \in BothSet :
          LET b == result.vars_def[i][1]
              a == result.vars_def[i][2].rename_from
          IN  /\ ~DictHas(result.vars_def, a)
              /\ DictGet(result.raw_values, a) # DictGet(result.raw_values, b)
              /\ DictHas(result.out, b)
              /\ ConflictErrors(a, b) = 1

\* A spec the canonicalizer accepts no value for.
RejectedSpec(vdef, env) == ~applicable(vdef, env) \/ vdef.state = "removed" \/ vdef.secret

\* The raw key k is unknown, names a rejected spec, or (not being a contract key
\* itself) is the legacy name that the rename map resolves to a rejected spec.
RejectedRawKey(k) ==
    IF DictHas(result.vars_def, k)
    THEN RejectedSpec(DictGet(result.vars_def, k), result.env)
    ELSE IF DictHas(rename_from_map(result.vars_def), k)
    THEN RejectedSpec(DictGet(result.vars_def,
                              DictGet(rename_from_map(result.vars_def), k)), result.env)
    ELSE TRUE

\* The contract key a raw key stands for: itself, or the spec it renames to.
TargetOf(k) ==
    IF ~DictHas(result.vars_def, k) /\ DictHas(rename_from_map(result.vars_def), k)
    THEN DictGet(rename_from_map(result.vars_def), k)
    ELSE k

\* C10: every key of the canonical output is a contract key that is in scope,
\* not removed and not secret; every raw key that is unknown, or names or
\* renames to a secret, removed or out-of-scope variable, records exactly one
\* error and gives no canonical entry; and the loop goes on: every raw key ends
\* as one canonical entry or one error.
C10_OnlyLiveKeysAccepted ==
    Canonicalized =>
        /\ \A k \in DictKeys(result.out) :
              /\ DictHas(result.vars_def, k)
              /\ ~RejectedSpec(DictGet(result.vars_def, k), result.env)
        /\ \A k \in DictKeys(result.raw_values) :
              RejectedRawKey(k) =>
                  /\ EntriesFor(result.errors, k) = 1
                  /\ ~DictHas(result.out, k)
                  /\ ~DictHas(result.out, TargetOf(k))
        /\ Len(result.out) + Len(result.errors) = Len(result.raw_values)

\* A rejected key first, an accepted key after it.
C10_Witness ==
    /\ Canonicalized
    /\ Len(result.raw_values) = 2
    /\ RejectedRawKey(result.raw_values[1][1])
    /\ result.errors[1].kind \in {"canon_secret", "canon_removed", "canon_legacy_removed",
                                  "canon_out_of_scope"}
    /\ Len(result.errors) = 1
    /\ Len(result.out) = 1

----------------------------------------------------------------------------
(* more properties of compile *)

\* The contract declares APP_ENV, in scope for the environment and not removed.
SelectorIsLive ==
    /\ DictHas(result.vars_def, "APP_ENV")
    /\ Live(DictGet(result.vars_def, "APP_ENV"), args.env)

\* C11: when the contract declares APP_ENV, in scope and not removed, the
\* effective mapping maps APP_ENV to the environment name whatever the default
\* and the layers gave it; otherwise the step creates no APP_ENV entry.
C11_SelectorIsForced ==
    Compiled =>
        IF SelectorIsLive
        THEN /\ DictHas(result.effective, "APP_ENV")
             /\ DictGet(result.effective, "APP_ENV") = PyStr(args.env)
        ELSE /\ SameEntry(result.steps.resolved, result.effective, "APP_ENV")
             /\ ~DictHas(result.effective, "APP_ENV")

\* The default and both layers gave APP_ENV values other than the environment.
C11_Witness ==
    /\ Compiled /\ SelectorIsLive
    /\ DictHas(result.steps.defaults, "APP_ENV")
    /\ DictHas(result.values, "APP_ENV") /\ DictHas(result.local_values, "APP_ENV")
    /\ DictHas(result.steps.resolved, "APP_ENV")
    /\ DictGet(result.steps.resolved, "APP_ENV") = PyStr("staging")
    /\ DictGet(result.effective, "APP_ENV") = PyStr(args.env)

----------------------------------------------------------------------------
(* properties of parse_contract *)

Parsed == result.op = "parse"

\* What parse_contract returns for the entry alone.
ParsedAlone(name, cfg) == parse_contract(OkDoc(<<<<name, cfg>>>>))

\* The entry breaks a validation rule; the rules that make the loop skip it.
BreaksARule(name, cfg) == ParsedAlone(name, cfg).errors # <<>>
Unusable(name, cfg) ==
    ~ENV_VAR_RE_match(name) \/ ~cfg.is_mapping \/ cfg.type \notin ALLOWED_TYPES

\* The errors recorded for the entry itself, the rename validation apart.
EntryErrors(name) ==
    Cardinality({j \in 1..Len(result.errors) :
                    /\ result.errors[j].key = name
                    /\ result.errors[j].kind
                          \notin {"contract_rename_collision", "contract_rename_conflict"}})
AllEntryErrors ==
    Cardinality({j \in 1..Len(result.errors) :
                    result.errors[j].kind
                        \notin {"contract_rename_collision", "contract_rename_conflict"}})

----------------------------------------------------------------------------
(* doctor against compile *)

Diagnosed == result.op = "doctor"

\* What the other command reaches on the same files, backends and arguments.
CompileOnSame == cmd_compile(repo, world, args.env, 0)
DoctorOnSame == cmd_doctor(repo, world, args.env, 0)

\* C13: doctor and compile reach the same status on the same input.
C13_SameStatus ==
    /\ Diagnosed => result.status = CompileOnSame.status
    /\ Compiled => result.status = DoctorOnSame.status

----------------------------------------------------------------------------
(* properties of the bws resolver *)

\* The resolutions of one kind made so far, as positions of the log.
LogOf(fn) == {i \in 1..Len(result.log) : result.log[i].fn = fn}

\* The resolution had to ask the tool, and the tool printed a list.
GotProjectList(e) ==
    /\ e.key # "" /\ ~DictHas(e.before.project_id_cache, e.key)
    /\ e.world.bws_installed /\ e.world.bws_token
    /\ e.world.bws_project_list.kind = "ok" /\ e.world.bws_project_list.is_list

\* The projects of the printed list whose trimmed lower-cased name is the key.
NamedLike(e) ==
    {j \in 1..Len(e.world.bws_project_list.items) :
        LET q == e.world.bws_project_list.items[j]
        IN  q.name # None /\ q.id # None /\ Lower(Strip(q.name)) = e.key}

\* C14: a lookup by name that gets the project list returns the id of the one
\* project whose trimmed lower-cased name equals the trimmed lower-cased
\* argument and caches it; it fails with "not found" when there is none and
\* with "not unique" when there are several; a failed lookup returns no id and
\* leaves the name cache as it was.
C14_LookupByName ==
    result.op = "bws" =>
        \A i \in LogOf("project_id_by_name") :
            LET e == result.log[i]
            IN  /\ GotProjectList(e) /\ Cardinality(NamedLike(e)) = 1 =>
                      /\ ~IsErr(e.err)
                      /\ \A j \in NamedLike(e) : e.val = e.world.bws_project_list.items[j].id
                      /\ e.after.project_id_cache
                            = Append(e.before.project_id_cache, <<e.key, e.val>>)
                /\ GotProjectList(e) /\ Cardinality(NamedLike(e)) = 0 =>
                      e.err.kind = "bws_project_not_found"
                /\ GotProjectList(e) /\ Cardinality(NamedLike(e)) > 1 =>
                      e.err.kind = "bws_project_not_unique"
                /\ IsErr(e.err) =>
                      /\ e.val = None
                      /\ e.after.project_id_cache = e.before.project_id_cache

\* A padded mixed-case name found, and a name two projects share.
C14_Witness ==
    /\ result.op = "bws"
    /\ \E i \in LogOf("project_id_by_name") :
          /\ result.log[i].arg = "Team Alpha" /\ result.log[i].val = "proj-1"
          /\ result.log[i].world = BwsUp
          /\ DictHas(result.log[i].after.project_id_cache, "team alpha")
    /\ \E i \in LogOf("project_id_by_name") :
          /\ result.log[i].err.kind = "bws_project_not_unique"
          /\ result.log[i].key = "team beta"
    /\ \E i \in LogOf("project_id_by_name") :
          result.log[i].err.kind = "bws_project_not_found"

\* The resolutions that went through a cache, and their invocations of the tool.
CachedLookups == LogOf("project_id_by_name") \cup LogOf("secrets_for_project")
Invoked(i) == result.log[i].calls # <<>>

Extends(c2, c1) == Len(c2) >= Len(c1) /\ SubSeq(c2, 1, Len(c1)) = c1

\* The resolution the step made.
LastLookup == result.log[Len(result.log)]'

\* The printed secrets of project pid have string keys that are all different.
PrintedOnce(w, pid) ==
    /\ w.bws_installed /\ w.bws_token
    /\ DictHas(w.bws_secret_list, pid)
    /\ DictGet(w.bws_secret_list, pid).kind = "ok" /\ DictGet(w.bws_secret_list, pid).is_list
    /\ \A a \in 1..Len(DictGet(w.bws_secret_list, pid).items),
          b \in 1..Len(DictGet(w.bws_secret_list, pid).items) :
          (/\ a # b
           /\ DictGet(w.bws_secret_list, pid).items[a].key # None
           /\ DictGet(w.bws_secret_list, pid).items[a].value # None
           /\ DictGet(w.bws_secret_list, pid).items[b].value # None)
          => DictGet(w.bws_secret_list, pid).items[a].key
                # DictGet(w.bws_secret_list, pid).items[b].key

\* C19: a step of the process only adds entries to the two caches and changes
\* or removes none; it adds one only when it has just invoked the tool and the
\* tool printed one project of that name, or a list of secrets of that project
\* without a duplicate key; and a lookup of a cached key returns the cached
\* value whatever the backend has become.
C19_CachesOnlyGrow ==
    [][(result.op = "bws" /\ result'.op = "bws") =>
          /\ Extends(result'.proc.project_id_cache, result.proc.project_id_cache)
          /\ Extends(result'.proc.secrets_cache, result.proc.secrets_cache)
          /\ Len(result'.proc.project_id_cache) <= Len(result.proc.project_id_cache) + 1
          /\ Len(result'.proc.secrets_cache) <= Len(result.proc.secrets_cache) + 1
          /\ Len(result'.proc.project_id_cache) > Len(result.proc.project_id_cache) =>
                /\ \E c \in 1..Len(LastLookup.calls) : LastLookup.calls[c][1] = "project list"
                /\ world.bws_installed /\ world.bws_token /\ world.bws_project_list.is_list
                /\ Cardinality({j \in 1..Len(world.bws_project_list.items) :
                      /\ world.bws_project_list.items[j].name # None
                      /\ world.bws_project_list.items[j].id # None
                      /\ Lower(Strip(world.bws_project_list.items[j].name))
                            = result'.proc.project_id_cache[Len(result'.proc.project_id_cache)][1]})
                      = 1
          /\ Len(result'.proc.secrets_cache) > Len(result.proc.secrets_cache) =>
                /\ \E c \in 1..Len(LastLookup.calls) :
                      LastLookup.calls[c]
                         = <<"secret list",
                             result'.proc.secrets_cache[Len(result'.proc.secrets_cache)][1]>>
                /\ PrintedOnce(world,
                      result'.proc.secrets_cache[Len(result'.proc.secrets_cache)][1])
          /\ (/\ Len(result'.log) > Len(result.log)
              /\ LastLookup.fn = "project_id_by_name"
              /\ DictHas(result.proc.project_id_cache, LastLookup.key))
             => LastLookup.val = DictGet(result.proc.project_id_cache, LastLookup.key)
          /\ (/\ Len(result'.log) > Len(result.log)
              /\ LastLookup.fn = "secrets_for_project"
              /\ DictHas(result.proc.secrets_cache, LastLookup.key))
             => LastLookup.val = DictGet(result.proc.secrets_cache, LastLookup.key)
      ]_vars

\* The name and the secrets resolved, the backend then changed, and both asked again.
C19_Witness ==
    /\ result.op = "bws" /\ Len(result.log) = 3
    /\ world \in {BwsMoved, BwsGone}
    /\ result.log[1].world = BwsUp
    /\ result.log[1].fn = "project_id_by_name" /\ result.log[1].val = "proj-1"
    /\ result.log[2].world = world /\ result.log[2].fn = "project_id_by_name"
    /\ result.log[2].val = "proj-1"
    /\ result.log[3].fn = "resolve_secret" /\ IsErr(result.log[3].err)
    /\ result.proc.project_id_cache = <<<<"team alpha", "proj-1">>>>

----------------------------------------------------------------------------
(* compile on a contract that cannot be read, defaults and types *)

ContractUnreadable == repo.contract.kind # "ok"

\* C16: on a structurally invalid contract compile fails with one error for the
\* contract, and the only other errors are those of documents read without it
\* (the gate, the two values files, the reference table).
C16_UnreadableContractShortCircuits ==
    Compiled /\ ContractUnreadable =>
        /\ result.status = "FAIL"
        /\ Len(result.steps.contract) = 1
        /\ result.report.errors
              = result.steps.gate \o result.steps.contract \o result.steps.load
                \o result.steps.secrets_ref

\* C17: at the end of compile every non-secret entry of effective is not None
\* and passes the type check of its declared type.
C17_EffectiveIsTyped ==
    Compiled =>
        \A i \in 1..Len(result.effective) :
            (/\ DictHas(result.vars_def, result.effective[i][1])
             /\ ~DictGet(result.vars_def, result.effective[i][1]).secret)
            => /\ result.effective[i][2] # PyNone
               /\ type_check_value(DictGet(result.vars_def, result.effective[i][1]),
                                   result.effective[i][2]) = None

----------------------------------------------------------------------------
(* more properties of redact_effective *)

Redacted == result.op = "redact"

\* C18: the redacted copy has exactly the keys of the mapping, every key that
\* is not a secret of the contract, unknown keys included, keeps its value, and
\* the mapping and the contract are after the call what they were before it.
C18_RedactKeepsTheRest ==
    Redacted =>
        /\ DictKeys(result.out) = DictKeys(result.effective)
        /\ Len(result.out) = Len(result.effective)
        /\ \A k \in DictKeys(result.effective) :
              ~IsSecret(result.vars_def, k) =>
                  DictGet(result.out, k) = DictGet(result.effective, k)
        /\ result.effective = repo.values.items
        /\ result.vars_def = parse_contract(repo.contract).vars

\* A mapping with a secret and a key the contract does not know.
C18_Witness ==
    /\ Redacted
    /\ DictHas(result.effective, "ZZ_UNKNOWN") /\ ~DictHas(result.vars_def, "ZZ_UNKNOWN")
    /\ DictGet(result.out, "ZZ_UNKNOWN") = PyStr("s3cr3t")
    /\ DictHas(result.effective, "API_TOKEN") /\ IsSecret(result.vars_def, "API_TOKEN")
    /\ DictGet(result.effective, "API_TOKEN") = PyStr("s3cr3t")
    /\ result.out # result.effective

----------------------------------------------------------------------------
(* the rename graph of a parsed contract *)

\* The returned specs that declare a legacy name, as positions.
Renaming == {i \in 1..Len(result.vars) : result.vars[i][2].rename_from # None}

\* Two specs claim one legacy name; a legacy name is a live entry of the contract.
RenameCollides ==
    \E i \in Renaming, j \in Renaming :
        i # j /\ result.vars[i][2].rename_from = result.vars[j][2].rename_from
RenameShadowsLiveEntry ==
    \E i \in Renaming :
        /\ DictHas(result.vars, result.vars[i][2].rename_from)
        /\ DictGet(result.vars, result.vars[i][2].rename_from).state # "removed"

\* C20: a contract in which two specs rename from the same name, or a spec
\* renames from an entry that is not removed, gets the matching error; so a
\* contract parsed without error has an injective renameFrom, no spec renaming
\* from itself, and only removed entries as legacy names.
C20_RenameGraph ==
    Parsed =>
        /\ RenameCollides =>
              \E e \in 1..Len(result.errors) :
                  result.errors[e].kind = "contract_rename_collision"
        /\ RenameShadowsLiveEntry =>
              \E e \in 1..Len(result.errors) :
                  result.errors[e].kind = "contract_rename_conflict"
        /\ result.errors = <<>> =>
              /\ \A i \in Renaming, j \in Renaming :
                    result.vars[i][2].rename_from = result.vars[j][2].rename_from => i = j
              /\ \A i \in Renaming : result.vars[i][2].rename_from # result.vars[i][1]
              /\ \A i \in Renaming :
                    DictHas(result.vars, result.vars[i][2].rename_from) =>
                        DictGet(result.vars, result.vars[i][2].rename_from).state = "removed"
              /\ \A i \in 1..Len(result.raw_vars) :
                    result.raw_vars[i][2].migration.rename_from # result.raw_vars[i][1]

\* A contract accepted with a rename whose legacy name is a removed entry.
C20_Witness ==
    /\ Parsed /\ result.errors = <<>> /\ Len(result.vars) = 2
    /\ result.vars[1][1] = "OLD_URL" /\ result.vars[1][2].state = "removed"
    /\ result.vars[2][2].rename_from = "OLD_URL"

----------------------------------------------------------------------------
(* the bws tool is run only when it can be *)

\* The resolution found nothing in its cache and had to turn to the tool.
NeedsTool(e) ==
    \/ /\ e.fn = "project_id_by_name"
       /\ e.key # "" /\ ~DictHas(e.before.project_id_cache, e.key)
    \/ /\ e.fn = "secrets_for_project"
       /\ e.key # "" /\ ~DictHas(e.before.secrets_cache, e.key)

\* C21: the tool is run only in a world where it is installed and the token is
\* set; a lookup that needs the tool fails with "CLI not found" when the tool
\* is absent and with "token not set" when only the token is, running nothing.
C21_ToolRunsOnlyWhenReady ==
    result.op = "bws" =>
        \A i \in 1..Len(result.log) :
            LET e == result.log[i]
            IN  /\ e.calls # <<>> => e.world.bws_installed /\ e.world.bws_token
                /\ NeedsTool(e) /\ ~e.world.bws_installed =>
                      e.err.kind = "bws_cli_not_found" /\ e.calls = <<>>
                /\ NeedsTool(e) /\ e.world.bws_installed /\ ~e.world.bws_token =>
                      e.err.kind = "bws_token_not_set" /\ e.calls = <<>>

\* The tool run once, the token then lost, and two lookups that need the tool.
C21_Witness ==
    /\ result.op = "bws" /\ Len(result.log) = 3
    /\ result.log[1].world = BwsUp /\ result.log[1].calls # <<>>
    /\ result.log[2].world = BwsNoToken /\ result.log[3].world = BwsNoToken
    /\ result.log[2].fn = "project_id_by_name" /\ NeedsTool(result.log[2])
    /\ result.log[2].err.kind = "bws_token_not_set"
    /\ result.log[3].fn = "secrets_for_project" /\ NeedsTool(result.log[3])
    /\ result.log[3].err.kind = "bws_token_not_set"
    /\ result.proc.calls = result.log[1].calls

----------------------------------------------------------------------------
(* what the merge of compile lets into effective *)

\* The mapping before the secrets are resolved: after the defaults and after
\* each overlay.
BeforeSecrets ==
    {result.steps.defaults, result.steps.overlay_values.effective,
     result.steps.overlay_local.effective}

\* Every key of the mapping is a live variable of the contract.
OnlyLiveKeys(effective) ==
    \A k \in DictKeys(effective) :
        DictHas(result.vars_def, k) /\ Live(DictGet(result.vars_def, k), args.env)

\* What resolve_secret returns for the secret variable k.
Resolved(k) ==
    resolve_secret(world, NewProcess, args.env, DictGet(result.vars_def, k).secret_ref,
                   DictGet(result.secrets_ref, DictGet(result.vars_def, k).secret_ref))

\* The secret variable k has the value a successful resolve_secret returned.
FromBackend(effective, k) ==
    /\ DictGet(result.vars_def, k).secret_ref \notin {None, ""}
    /\ DictHas(result.secrets_ref, DictGet(result.vars_def, k).secret_ref)
    /\ ~IsErr(Resolved(k).err)
    /\ DictGet(effective, k) = PyStr(Resolved(k).val)

\* C22 as claimed: at every point of the merge the keys of effective are live
\* variables of the contract, and a secret variable is in it only with the
\* value a successful resolve_secret returned.
C22_OnlyLiveAndResolved ==
    Compiled =>
        /\ \A m \in BeforeSecrets :
              OnlyLiveKeys(m) /\ \A k \in DictKeys(m) : ~IsSecret(result.vars_def, k)
        /\ OnlyLiveKeys(result.steps.resolved) /\ OnlyLiveKeys(result.effective)
        /\ \A k \in DictKeys(result.steps.resolved) :
              IsSecret(result.vars_def, k) => FromBackend(result.steps.resolved, k)
        /\ \A k \in DictKeys(result.effective) :
              IsSecret(result.vars_def, k) => FromBackend(result.effective, k)

\* C22 as amended: the same, except that the forced selector stores the name of
\* the environment under APP_ENV also when APP_ENV is a secret variable.
C22_OnlyLiveAndResolvedOrForced ==
    Compiled =>
        /\ \A m \in BeforeSecrets :
              OnlyLiveKeys(m) /\ \A k \in DictKeys(m) : ~IsSecret(result.vars_def, k)
        /\ OnlyLiveKeys(result.steps.resolved) /\ OnlyLiveKeys(result.effective)
        /\ \A k \in DictKeys(result.steps.resolved) :
              IsSecret(result.vars_def, k) => FromBackend(result.steps.resolved, k)
        /\ \A k \in DictKeys(result.effective) :
              IsSecret(result.vars_def, k) =>
                  IF k = "APP_ENV" THEN DictGet(result.effective, k) = PyStr(args.env)
                  ELSE FromBackend(result.effective, k)

\* A layer that names a secret and a legacy key, beside a resolved secret.
C22_Witness ==
    /\ Compiled
    /\ DictHas(result.effective, "API_KEY") /\ IsSecret(result.vars_def, "API_KEY")
    /\ ~DictHas(result.steps.overlay_local.effective, "API_KEY")
    /\ repo.values.kind = "mapping" /\ DictHas(repo.values.items, "API_KEY")
    /\ result.values = <<>>

----------------------------------------------------------------------------
(* what a run shows of the values of its secrets *)

\* The run on the same files and arguments with the backends of world w.
RunIn(w) == cmd_compile(repo, w, args.env, result.report.timestamp_utc)

\* The worlds in which every secret is there, with three different values.
SecretWorlds == {FullWorld, RotatedWorld, BlankWorld}

\* Every lookup the run made in a backend succeeded.
AllResolved(c) ==
    \A i \in 1..Len(c.steps.secret_missing) :
        c.steps.secret_missing[i].kind # "secret_material_unavailable"

\* What leaves the process, the local env file apart: the status, the lists of
\* the report, the key summary and the redacted context document.
Shown(c) ==
    [status |-> c.status, exit_code |-> c.exit_code, errors |-> c.report.errors,
     missing |-> c.report.missing, warnings |-> c.report.warnings,
     keys |-> c.report.keys,
     context |-> CtxFileAfter(c, args.env, NoFile, c.report.timestamp_utc)]

\* The required secrets of the two runs are blank in both or in neither.
SameBlanks(c, d) ==
    \A k \in DictKeys(c.steps.resolved) :
        (IsSecret(c.vars_def, k) /\ DictGet(c.vars_def, k).required) =>
            /\ DictHas(d.steps.resolved, k)
            /\ (DictGet(c.steps.resolved, k) = PyStr(""))
                  <=> (DictGet(d.steps.resolved, k) = PyStr(""))

\* C23 as claimed: two runs that differ only in the values their successful
\* lookups return show the same.
C23_SecretsDoNotShow ==
    Compiled /\ AllResolved(result) =>
        \A w \in SecretWorlds :
            LET other == RunIn(w)
            IN  AllResolved(other) => Shown(other) = Shown(result)

\* C23 as amended: they show the same when each required secret is blank in
\* both runs or in neither.
C23_OnlyBlankSecretsShow ==
    Compiled /\ AllResolved(result) =>
        \A w \in SecretWorlds :
            LET other == RunIn(w)
            IN  AllResolved(other) /\ SameBlanks(result, other) =>
                    Shown(other) = Shown(result)

\* A passing run whose secret has another value after the rotation.
C23_Witness ==
    /\ Compiled /\ result.status = "PASS" /\ world = FullWorld
    /\ DictHas(result.effective, "API_KEY") /\ IsSecret(result.vars_def, "API_KEY")
    /\ DictGet(result.vars_def, "API_KEY").required
    /\ AllResolved(RunIn(RotatedWorld))
    /\ DictGet(RunIn(RotatedWorld).effective, "API_KEY")
          # DictGet(result.effective, "API_KEY")
    /\ DictGet(RunIn(RotatedWorld).effective, "API_KEY") # PyStr("")
    /\ ctx_file[args.env].exists

----------------------------------------------------------------------------
(* what a passing run persists *)

\* The live variables of the contract, as positions.
LiveSpecs ==
    {i \in 1..Len(result.vars_def) : Live(result.vars_def[i][2], args.env)}

\* C24: after a run that ends PASS, effective holds every live required
\* variable with a value that is neither None nor "", and every live secret
\* variable with the value its backend returned, APP_ENV holding the name of
\* the environment instead; and that mapping is what the env file holds.
C24_PassIsComplete ==
    Compiled /\ result.status = "PASS" =>
        /\ \A i \in LiveSpecs :
              result.vars_def[i][2].required =>
                  /\ DictHas(result.effective, result.vars_def[i][1])
                  /\ DictGet(result.effective, result.vars_def[i][1])
                        \notin {PyNone, PyStr("")}
        /\ \A i \in LiveSpecs :
              result.vars_def[i][2].secret =>
                  /\ DictHas(result.effective, result.vars_def[i][1])
                  /\ IF result.vars_def[i][1] = "APP_ENV"
                     THEN DictGet(result.effective, "APP_ENV") = PyStr(args.env)
                     ELSE FromBackend(result.effective, result.vars_def[i][1])
        /\ ~args.no_write =>
              /\ env_file[args.env].exists
              /\ env_file[args.env].content
                    = write_env_file(result.effective, result.report.timestamp_utc)

\* A passing run with a required variable from its default, a secret that is
\* not required, and the env file written.
C24_Witness ==
    /\ Compiled /\ result.status = "PASS" /\ ~args.no_write
    /\ env_file[args.env].exists
    /\ DictHas(result.vars_def, "DB_PORT") /\ DictGet(result.vars_def, "DB_PORT").required
    /\ DictHas(result.effective, "DB_PORT")
    /\ IsSecret(result.vars_def, "API_KEY") /\ ~DictGet(result.vars_def, "API_KEY").required
    /\ Live(DictGet(result.vars_def, "API_KEY"), args.env)
    /\ DictGet(result.effective, "API_KEY") = PyStr("t0ken")

====
